---- MODULE Spec2Model ----
(***************************************************************************)
(* A model of the VULCAN run controller (vulcanController.py): the         *)
(* configuration assembler cfgVulcan, the run ledger vul-log.txt, the      *)
(* duplicate check checkDup and the column loop of runFullVulcan.          *)
(*                                                                         *)
(* Text is modelled as text: a file is a sequence of lines, a line is a    *)
(* string, and the string operations the controller uses (strip, split,    *)
(* replace, in) are defined below character by character.                  *)
(***************************************************************************)
EXTENDS Integers, Sequences, FiniteSets, TLC

(***************************************************************************)
(* Python string operations                                                *)
(***************************************************************************)
Max(S) == CHOOSE m \in S : \A n \in S : m >= n

\* s.find(sub) from position i on (positions count from 1; 0: not found)
RECURSIVE Find(_, _, _)
Find(s, sub, i) ==
  IF i + Len(sub) - 1 > Len(s) THEN 0
  ELSE IF SubSeq(s, i, i + Len(sub) - 1) = sub THEN i
  ELSE Find(s, sub, i + 1)

\* sub in s
Contains(s, sub) == Find(s, sub, 1) # 0

\* s.split(sep)
RECURSIVE split(_, _)
split(s, sep) ==
  LET i == Find(s, sep, 1) IN
  IF i = 0 THEN <<s>>
  ELSE <<SubSeq(s, 1, i - 1)>> \o split(SubSeq(s, i + Len(sep), Len(s)), sep)

\* s.split(sep)[0]
SplitFirst(s, sep) ==
  LET i == Find(s, sep, 1) IN IF i = 0 THEN s ELSE SubSeq(s, 1, i - 1)

\* whether s.split(sep) has a second part, and s.split(sep)[1]
HasSecond(s, sep) == Find(s, sep, 1) # 0

SplitSecond(s, sep) ==
  LET i == Find(s, sep, 1) IN SplitFirst(SubSeq(s, i + Len(sep), Len(s)), sep)

\* s.split(sep)[-1]
RECURSIVE SplitLast(_, _)
SplitLast(s, sep) ==
  LET i == Find(s, sep, 1) IN
  IF i = 0 THEN s ELSE SplitLast(SubSeq(s, i + Len(sep), Len(s)), sep)

\* s.replace(old, new)
RECURSIVE replace(_, _, _)
replace(s, old, new) ==
  LET i == Find(s, old, 1) IN
  IF i = 0 THEN s
  ELSE SubSeq(s, 1, i - 1) \o new \o replace(SubSeq(s, i + Len(old), Len(s)), old, new)

\* s.strip()
RECURSIVE FirstNonSpace(_, _)
FirstNonSpace(s, i) ==
  IF i > Len(s) THEN 0 ELSE IF SubSeq(s, i, i) # " " THEN i ELSE FirstNonSpace(s, i + 1)

RECURSIVE LastNonSpace(_, _)
LastNonSpace(s, i) ==
  IF i < 1 THEN 0 ELSE IF SubSeq(s, i, i) # " " THEN i ELSE LastNonSpace(s, i - 1)

strip(s) ==
  LET i == FirstNonSpace(s, 1) IN
  IF i = 0 THEN "" ELSE SubSeq(s, i, LastNonSpace(s, Len(s)))

\* ''.join(parts)
RECURSIVE join(_)
join(parts) == IF parts = <<>> THEN "" ELSE Head(parts) \o join(Tail(parts))

Last(seq) == seq[Len(seq)]

(***************************************************************************)
(* eval(value) on the literal texts a configuration holds: numbers,        *)
(* quoted strings, True/False and bracketed lists.  Any other text raises. *)
(* Values are compared as Python compares them: 1, 1.0 and True are equal. *)
(***************************************************************************)
DigitChars == "0123456789"

IsDigit(c) == Len(c) = 1 /\ Contains(DigitChars, c)

DigitVal(c) == Find(DigitChars, c, 1) - 1

AllDigits(s) == Len(s) > 0 /\ \A i \in 1..Len(s) : IsDigit(SubSeq(s, i, i))

\* int(s)
RECURSIVE int(_)
int(s) ==
  IF Len(s) = 0 THEN 0
  ELSE 10 * int(SubSeq(s, 1, Len(s) - 1)) + DigitVal(SubSeq(s, Len(s), Len(s)))

\* the digits of a fraction without its trailing zeros
RECURSIVE DropTrailingZeros(_)
DropTrailingZeros(s) ==
  IF Len(s) > 0 /\ SubSeq(s, Len(s), Len(s)) = "0"
  THEN DropTrailingZeros(SubSeq(s, 1, Len(s) - 1)) ELSE s

NoValue == [ok |-> FALSE, ty |-> "none", n |-> 0, s |-> "", items |-> <<>>]

NumValue(n, frac) == [ok |-> TRUE, ty |-> "num", n |-> n, s |-> frac, items |-> <<>>]

StrValue(s) == [ok |-> TRUE, ty |-> "str", n |-> 0, s |-> s, items |-> <<>>]

ListValue(items) == [ok |-> TRUE, ty |-> "list", n |-> 0, s |-> "", items |-> items]

IsQuoted(text, q) ==
  /\ Len(text) >= 2
  /\ SubSeq(text, 1, 1) = q
  /\ SubSeq(text, Len(text), Len(text)) = q
  /\ ~Contains(SubSeq(text, 2, Len(text) - 1), q)

\* a literal of the form digits.digits
evalDecimal(parts) ==
  IF Len(parts) = 2 /\ AllDigits(parts[1]) /\ AllDigits(parts[2])
  THEN NumValue(int(parts[1]), DropTrailingZeros(parts[2]))
  ELSE NoValue

\* a literal that is not a list
evalScalar(text) ==
  IF AllDigits(text) THEN NumValue(int(text), "")
  ELSE IF text = "True" THEN NumValue(1, "")
  ELSE IF text = "False" THEN NumValue(0, "")
  ELSE IF IsQuoted(text, "'") \/ IsQuoted(text, "\"")
       THEN StrValue(SubSeq(text, 2, Len(text) - 1))
  ELSE evalDecimal(split(text, "."))

\* a list of the values of its elements, if every element has one
evalList(vals) ==
  IF \A i \in 1..Len(vals) : vals[i].ok THEN ListValue(vals) ELSE NoValue

evalElements(inner) ==
  IF inner = "" THEN ListValue(<<>>)
  ELSE evalList([i \in 1..Len(split(inner, ",")) |-> evalScalar(strip(split(inner, ",")[i]))])

\* eval(value): [ok |-> FALSE] stands for the exception eval raises
eval(text) ==
  IF Len(text) >= 2 /\ SubSeq(text, 1, 1) = "[" /\ SubSeq(text, Len(text), Len(text)) = "]"
  THEN evalElements(strip(SubSeq(text, 2, Len(text) - 1)))
  ELSE evalScalar(text)

(***************************************************************************)
(* Directories and file paths (vulcanController.__init__)                  *)
(***************************************************************************)
masterDir == "/m"

inputDir == "/i"

outputDir == "/o"

\* os.path.join(self.masterDir, 'vulcan_framework/')
vulcanFrameworkDir == masterDir \o "/" \o "vulcan_framework/"

\* os.path.join(self.outputDir, 'vul-runtime/')
VulcanRuntimeDir == outputDir \o "/" \o "vul-runtime/"

VulcanRuntimeLogFilePath == VulcanRuntimeDir \o "vul-log.txt"

\* os.path.join(self.VulcanRuntimeDir, f'{self.out_name}-run-{runID}-cfgFile.txt')
CfgFilePathOf(outName, runID) ==
  VulcanRuntimeDir \o outName \o "-run-" \o runID \o "-cfgFile.txt"

\* the backend's result artifact, {out_name}-run-{run_num}-output.vul
OutputFilePathOf(outName, runID) ==
  VulcanRuntimeDir \o outName \o "-run-" \o runID \o "-output.vul"

\* time.time(), sys.executable: the text they print is not modelled
Now == "t"

(***************************************************************************)
(* The state: the files on disk and the fields of the controller object    *)
(***************************************************************************)
VARIABLES
  ledgerExists,          \* whether output/vul-runtime/vul-log.txt exists
  ledger,                \* its lines, in order (blank lines left out)
  runtimeFiles,          \* output/vul-runtime/: path -> the file's lines
  cfgFile,               \* vulcan_framework/vulcan_cfg.py, the working slot
  baseParameters,        \* input/VulcanBaseParameters-2.txt
  cfgComparator,         \* input/VulcanCfgComparator.txt, the ignore-list
  atmosphereDim,         \* globalParameters['world']['atmosphereDim']
  vulcanPopulator,       \* input/VulcanPopulator.json
  vulcanRunType,         \* self._vulcanRunType
  currentRunID,          \* self.currentRunID
  out_name,              \* self.out_name
  modifyAtmFilePath,     \* self.modifyAtmFilePath
  controllerCfgVulcan,   \* self._controllerCfgVulcan, a dict as <<key, text>> pairs
  importCfgVulcan,       \* self._importCfgVulcan
  modelParametersVulcan, \* self._modelParametersVulcan
  columnsList,           \* runFullVulcan: columnsList
  index,                 \* runFullVulcan: index of the column in the loop
  checkDupResult,        \* runFullVulcan: checkDupResult
  pc,                    \* where the controller stands
  raised,                \* the exception that ended the controller, or ""
  controllers,           \* how many controllers have been constructed
  backend,               \* what the last backend execution did
  writes,                \* path -> how often a config or result artifact was written there
  firstCfgFile,          \* the vulcan_cfg.py of an earlier checkDup on the same history
  firstResult,           \* and the result of that checkDup
  package,               \* what the last call of vulcanExport returned to its caller
  translated             \* the calls of the translation functions made by a caller

vars == <<ledgerExists, ledger, runtimeFiles, cfgFile, baseParameters, cfgComparator,
          atmosphereDim, vulcanPopulator, vulcanRunType, currentRunID, out_name, modifyAtmFilePath,
          controllerCfgVulcan, importCfgVulcan, modelParametersVulcan, columnsList,
          index, checkDupResult, pc, raised, controllers, backend, writes,
          firstCfgFile, firstResult, package, translated>>

\* the directory after a file is written
WriteFile(files, path, lines) ==
  [p \in DOMAIN files \cup {path} |-> IF p = path THEN lines ELSE files[p]]

(***************************************************************************)
(* checkDupLinesToDict                                                     *)
(***************************************************************************)
\* the key and the value of a line, as line.split('=')[0].strip() and [1].strip()
LineKey(line) == strip(SplitFirst(line, "="))

LineValue(line) == strip(SplitSecond(line, "="))

HasEquals(line) == HasSecond(line, "=")

\* lines_4: stripped, cut at '#', empty lines removed, lines starting with '#' removed
CodeLines(cfgFileLines) ==
  LET lines_1 == [i \in 1..Len(cfgFileLines) |-> strip(cfgFileLines[i])]
      lines_2 == [i \in 1..Len(lines_1) |-> SplitFirst(lines_1[i], "#")]
      lines_3 == SelectSeq(lines_2, LAMBDA x : x # "")
  IN SelectSeq(lines_3, LAMBDA x : SubSeq(x, 1, 1) # "#")

DictOf(d) == [st |-> "dict", d |-> d]

\* the return value False, and the IndexError of line.split('=')[1]
DictFalse == [st |-> "False", d |-> <<>>]

DictIndexError == [st |-> "IndexError", d |-> <<>>]

\* try: newValue = eval(value) except: return False; dict[key] = newValue
DictPut(d, key, newValue) ==
  IF ~newValue.ok THEN DictFalse
  ELSE DictOf([k \in DOMAIN d \cup {key} |-> IF k = key THEN newValue ELSE d[k]])

\* the loop over lines_4 (lines 494-500) from line i on; acc is the dict so far
RECURSIVE LinesLoop(_, _, _)
LinesLoop(lines_4, i, acc) ==
  IF i > Len(lines_4) \/ acc.st # "dict" THEN acc
  ELSE IF ~HasEquals(lines_4[i]) THEN DictIndexError
  ELSE LinesLoop(lines_4, i + 1,
                 DictPut(acc.d, LineKey(lines_4[i]), eval(LineValue(lines_4[i]))))

\* mutant: only the first name of the ignore-list is removed
KeptKeysFirst(keys, ignoreVarList) ==
  keys \ {ignoreVarList[i] : i \in 1..Len(ignoreVarList) \cap {1}}

\* dict.pop(ignoreVar, None) for every ignoreVar
KeptKeys(keys, ignoreVarList) ==
  keys \ {ignoreVarList[i] : i \in 1..Len(ignoreVarList)}

\* lines 503-506: the ignored names are removed from the finished dict
PopIgnored(acc, ignoreVarList) ==
  IF acc.st # "dict" THEN acc
  ELSE DictOf([k \in KeptKeys(DOMAIN acc.d, ignoreVarList) |-> acc.d[k]])

checkDupLinesToDict(cfgFileLines, ignoreVarList) ==
  PopIgnored(LinesLoop(CodeLines(cfgFileLines), 1, DictOf(<<>>)), ignoreVarList)

(***************************************************************************)
(* checkDup                                                                *)
(***************************************************************************)
\* the return values: False, [previousCfgFilePath, latestCfgFilePath], or an exception
DupFalse == [kind |-> "False", prev |-> "", latest |-> "", exc |-> ""]

DupFound(prev, latest) == [kind |-> "dup", prev |-> prev, latest |-> latest, exc |-> ""]

DupRaise(exc) == [kind |-> "raise", prev |-> "", latest |-> "", exc |-> exc]

\* no result yet
DupNone == [kind |-> "none", prev |-> "", latest |-> "", exc |-> ""]

\* ignoreVarList = [x.strip() for x in f.readlines()]
IgnoreVarList(comparatorLines) ==
  [i \in 1..Len(comparatorLines) |-> strip(comparatorLines[i])]

\* cfgFilePathAll: the log lines x with x.split(":")[0] == 'CfgFilePath'
CfgFilePathAll(logLines) ==
  SelectSeq(logLines, LAMBDA x : SplitFirst(x, ":") = "CfgFilePath")

\* [x.split('CfgFilePath: ')[-1].strip() for x in cfgFilePathAll][:-1]
PreviousCfgFilePaths(cfgFilePathAll) ==
  [i \in 1..(Len(cfgFilePathAll) - 1) |->
     strip(SplitLast(cfgFilePathAll[i], "CfgFilePath: "))]

latestCfgFilePath == vulcanFrameworkDir \o "vulcan_cfg.py"

\* mutant: the comparison loops over the previous keys without comparing the key sets
SameDictOnPreviousKeys(previous, latest) ==
  \A key \in DOMAIN previous : key \in DOMAIN latest /\ previous[key] = latest[key]

\* statusFlag: set(previous.keys()) == set(latest.keys()) and no key with different values
SameDict(previous, latest) ==
  /\ DOMAIN previous = DOMAIN latest
  /\ \A key \in DOMAIN previous : previous[key] = latest[key]

\* lines 449-462 for one previous dict: line 449 tests the latest dict again, so a
\* previous dict that is False reaches previousCfgFileVarDict.keys()
CompareOutcome(previous, latest) ==
  IF previous.st = "IndexError" THEN "IndexError"
  ELSE IF previous.st = "False" THEN "AttributeError"
  ELSE IF SameDict(previous.d, latest) THEN "match"
  ELSE "differ"

\* one pass of the loop over previousCfgFilePaths, for the file at `path`
PreviousOutcome(files, path, latest, ignoreVarList) ==
  IF path \notin DOMAIN files THEN "FileNotFoundError"
  ELSE CompareOutcome(checkDupLinesToDict(files[path], ignoreVarList), latest)

\* what one pass decides: a match returns, a difference goes on, an exception ends
PassResult(outcome, path, rest) ==
  IF outcome = "match" THEN DupFound(path, latestCfgFilePath)
  ELSE IF outcome = "differ" THEN rest
  ELSE DupRaise(outcome)

\* the loop over previousCfgFilePaths (lines 441-464) from entry i on
RECURSIVE PreviousLoop(_, _, _, _, _)
PreviousLoop(files, previous, i, latest, ignoreVarList) ==
  IF i > Len(previous) THEN DupFalse
  ELSE PassResult(PreviousOutcome(files, previous[i], latest, ignoreVarList), previous[i],
                  PreviousLoop(files, previous, i + 1, latest, ignoreVarList))

\* lines 433-464, with the latest dict in hand
CompareLatest(files, previous, latest, ignoreVarList) ==
  IF latest.st = "IndexError" THEN DupRaise("IndexError")
  ELSE IF latest.st = "False" \/ DOMAIN latest.d = {} THEN DupFalse
  ELSE PreviousLoop(files, previous, 1, latest.d, ignoreVarList)

\* lines 424-464, with cfgFilePathAll in hand
CompareAll(files, cfgFilePathAll, workingLines, ignoreVarList) ==
  IF Len(cfgFilePathAll) = 1 THEN DupFalse
  ELSE CompareLatest(files, PreviousCfgFilePaths(cfgFilePathAll),
                     checkDupLinesToDict(workingLines, ignoreVarList), ignoreVarList)

\* mutant: the pending side artifact is not looked at
checkDupIgnoringSide(files, logLines, workingLines, comparatorLines, modifyPath) ==
  CompareAll(files, CfgFilePathAll(logLines), workingLines, IgnoreVarList(comparatorLines))

\* checkDup on the given disk: the runtime files, the log, vulcan_cfg.py, the comparator
\* and self.modifyAtmFilePath
checkDupOn(files, logLines, workingLines, comparatorLines, modifyPath) ==
  IF modifyPath \in DOMAIN files THEN DupFalse
  ELSE CompareAll(files, CfgFilePathAll(logLines), workingLines,
                  IgnoreVarList(comparatorLines))

checkDup == checkDupOn(runtimeFiles, ledger, cfgFile, cfgComparator, modifyAtmFilePath)

(***************************************************************************)
(* Python floats: IEEE 754 binary64, round to nearest, ties to even.       *)
(* A finite positive value is m * 2^e with m a 53-bit significand, written *)
(* as its bits, most significant first.  Naturals of any size are bit      *)
(* sequences too; the arithmetic works on them in limbs of LimbBits bits.  *)
(***************************************************************************)
\* the width of the significand of a binary64
MantissaBits == 53

\* the exponent of the last bit of the largest finite binary64, (2^53 - 1) * 2^971
MaxExponent == 971

\* the width of a limb: a limb times a factor below 2^8 stays a small integer
LimbBits == 15

FloatZero == [k |-> "zero", m |-> <<>>, e |-> 0]

FloatInf == [k |-> "inf", m |-> <<>>, e |-> 0]

FloatNaN == [k |-> "nan", m |-> <<>>, e |-> 0]

\* n zeros
Zeros(n) == [i \in 1..n |-> 0]

\* a bit sequence without its leading zeros
StripZeros(bits) ==
  LET ones == {i \in 1..Len(bits) : bits[i] = 1}
  IN IF ones = {} THEN <<>>
     ELSE SubSeq(bits, CHOOSE i \in ones : \A j \in ones : i <= j, Len(bits))

\* the bits of a natural number
RECURSIVE NatBits(_)
NatBits(n) == IF n = 0 THEN <<>> ELSE Append(NatBits(n \div 2), n % 2)

\* the natural number of a short bit sequence
RECURSIVE BitsNat(_)
BitsNat(bits) ==
  IF bits = <<>> THEN 0 ELSE 2 * BitsNat(SubSeq(bits, 1, Len(bits) - 1)) + bits[Len(bits)]

\* bits + 1
BitsInc(bits) ==
  LET zeros == {i \in 1..Len(bits) : bits[i] = 0}
  IN IF zeros = {} THEN <<1>> \o Zeros(Len(bits))
     ELSE LET z == CHOOSE i \in zeros : \A j \in zeros : j <= i
          IN [i \in 1..Len(bits) |-> IF i < z THEN bits[i] ELSE IF i = z THEN 1 ELSE 0]

\* the limbs of a bit sequence, most significant first
Limbs(bits) ==
  LET n      == (Len(bits) + LimbBits - 1) \div LimbBits
      padded == Zeros(n * LimbBits - Len(bits)) \o bits
  IN [j \in 1..n |-> BitsNat(SubSeq(padded, (j - 1) * LimbBits + 1, j * LimbBits))]

\* the bits of a sequence of limbs
LimbsBits(limbs) ==
  StripZeros([i \in 1..(Len(limbs) * LimbBits) |->
                (limbs[(i - 1) \div LimbBits + 1]
                   \div 2 ^ (LimbBits - 1 - ((i - 1) % LimbBits))) % 2])

\* limbs a + b + c from limb i down, the two of one length; acc holds the limbs below
RECURSIVE LimbsAdd(_, _, _, _, _)
LimbsAdd(a, b, i, c, acc) ==
  IF i = 0 THEN <<c>> \o acc
  ELSE IF a[i] + b[i] + c >= 2 ^ LimbBits
  THEN LimbsAdd(a, b, i - 1, 1, <<a[i] + b[i] + c - 2 ^ LimbBits>> \o acc)
  ELSE LimbsAdd(a, b, i - 1, 0, <<a[i] + b[i] + c>> \o acc)

\* a + b on bit sequences
BitsAdd(a, b) ==
  LET n == IF Len(a) > Len(b) THEN Len(a) ELSE Len(b)
      x == Limbs(Zeros(n - Len(a)) \o a)
      y == Limbs(Zeros(n - Len(b)) \o b)
  IN LimbsBits(LimbsAdd(x, y, Len(x), 0, <<>>))

\* limbs * k for a factor k below 2^8, from limb i down with carry c
RECURSIVE LimbsMul(_, _, _, _, _)
LimbsMul(limbs, k, i, c, acc) ==
  IF i = 0 THEN <<c>> \o acc
  ELSE IF limbs[i] * k + c >= 2 ^ LimbBits
  THEN LimbsMul(limbs, k, i - 1, (limbs[i] * k + c) \div 2 ^ LimbBits,
                <<(limbs[i] * k + c) % 2 ^ LimbBits>> \o acc)
  ELSE LimbsMul(limbs, k, i - 1, 0, <<limbs[i] * k + c>> \o acc)

\* bits * k
BitsMul(bits, k) ==
  LET x == Limbs(bits) IN LimbsBits(LimbsMul(x, k, Len(x), 0, <<>>))

\* limbs \div k for a divisor k below 2^8, from limb i up with rest r: quotient and rest
RECURSIVE LimbsDiv(_, _, _, _, _)
LimbsDiv(limbs, k, i, r, q) ==
  IF i > Len(limbs) THEN [q |-> q, r |-> r]
  ELSE IF r * 2 ^ LimbBits + limbs[i] >= k
  THEN LimbsDiv(limbs, k, i + 1, (r * 2 ^ LimbBits + limbs[i]) % k,
                Append(q, (r * 2 ^ LimbBits + limbs[i]) \div k))
  ELSE LimbsDiv(limbs, k, i + 1, limbs[i], Append(q, 0))

\* bits \div k and the rest
BitsDiv(bits, k) ==
  LET d == LimbsDiv(Limbs(bits), k, 1, 0, <<>>) IN [q |-> LimbsBits(d.q), r |-> d.r]

\* the binary64 nearest to bits * 2^e (plus a positive rest below the last bit when
\* sticky); `exact` says that nothing was rounded away
FloatRound(bits, e, sticky) ==
  LET n == Len(bits) IN
  IF n = 0 THEN [v |-> FloatZero, exact |-> ~sticky]
  ELSE IF n <= MantissaBits
  THEN [v |-> IF e - (MantissaBits - n) > MaxExponent THEN FloatInf
              ELSE [k |-> "fin", m |-> bits \o Zeros(MantissaBits - n),
                    e |-> e - (MantissaBits - n)],
        exact |-> ~sticky /\ e - (MantissaBits - n) <= MaxExponent]
  ELSE LET top   == SubSeq(bits, 1, MantissaBits)
           guard == bits[MantissaBits + 1]
           rest  == sticky \/ \E i \in (MantissaBits + 2)..n : bits[i] = 1
           up    == guard = 1 /\ (rest \/ top[MantissaBits] = 1)
           m1    == IF up THEN BitsInc(top) ELSE top
           m     == SubSeq(m1, 1, MantissaBits)
           e1    == e + (n - MantissaBits) + (Len(m1) - MantissaBits)
       IN [v |-> IF e1 > MaxExponent THEN FloatInf ELSE [k |-> "fin", m |-> m, e |-> e1],
           exact |-> guard = 0 /\ ~rest /\ e1 <= MaxExponent]

\* float(n) of a natural number
FloatOfNat(n) == FloatRound(NatBits(n), 0, FALSE).v

\* a * k for a natural factor k below 2^8
FloatMulRounded(a, k) ==
  IF a.k # "fin" THEN [v |-> a, exact |-> a.k = "zero"]
  ELSE FloatRound(BitsMul(a.m, k), a.e, FALSE)

FloatMul(a, k) == FloatMulRounded(a, k).v

\* the bits a quotient is computed with beyond the significand: with a divisor below
\* 2^8 the quotient keeps the 53 bits, the rounding bit and one more
GuardBits == 10

\* a / k for a natural divisor k below 2^8
FloatDivRounded(a, k) ==
  IF a.k # "fin" THEN [v |-> a, exact |-> a.k = "zero"]
  ELSE LET d == BitsDiv(a.m \o Zeros(GuardBits), k)
       IN FloatRound(d.q, a.e - GuardBits, d.r # 0)

FloatDiv(a, k) == FloatDivRounded(a, k).v

\* the float n / d for d below 2^8, as Python computes it from the two integers
FloatRatio(n, d) == FloatDiv(FloatOfNat(n), d)

\* 2.0 ** 1023
FloatHuge == [k |-> "fin", m |-> <<1>> \o Zeros(MantissaBits - 1), e |-> MaxExponent]

\* a + b; an operand too small to reach the rounding bit only makes the sum inexact
FloatAdd(a, b) ==
  IF a.k = "nan" \/ b.k = "nan" THEN FloatNaN
  ELSE IF a.k = "inf" \/ b.k = "inf" THEN FloatInf
  ELSE IF a.k = "zero" THEN b
  ELSE IF b.k = "zero" THEN a
  ELSE LET lo == IF a.e < b.e THEN a ELSE b
           hi == IF a.e < b.e THEN b ELSE a
       IN IF hi.e - lo.e > MantissaBits + 2
          THEN FloatRound(hi.m \o Zeros(2), hi.e - 2, TRUE).v
          ELSE FloatRound(BitsAdd(hi.m \o Zeros(hi.e - lo.e), lo.m), lo.e, FALSE).v

\* a == b: a nan is equal to nothing
FloatEq(a, b) == a.k # "nan" /\ a = b

\* the natural number an integral binary64 below 2^31 stands for
FloatIsSmallNat(a) ==
  \/ a.k = "zero"
  \/ /\ a.k = "fin"
     /\ -a.e \in (MantissaBits - 31)..(MantissaBits - 1)
     /\ \A i \in (MantissaBits + a.e + 1)..MantissaBits : a.m[i] = 0

FloatNat(a) == IF a.k = "zero" THEN 0 ELSE BitsNat(SubSeq(a.m, 1, MantissaBits + a.e))

\* the digits of a bit sequence as text
RECURSIVE BitsText(_)
BitsText(bits) == IF bits = <<>> THEN "" ELSE ToString(Head(bits)) \o BitsText(Tail(bits))

\* repr(a), as json.dump writes a float: an integral value below 2^31 as '500.0'; the
\* text of every other value is only kept distinct, as significand bits and exponent
FloatRepr(a) ==
  IF FloatIsSmallNat(a) THEN ToString(FloatNat(a)) \o ".0"
  ELSE IF a.k = "fin" THEN "0b" \o BitsText(a.m) \o "p" \o ToString(a.e)
  ELSE IF a.k = "inf" THEN "Infinity"
  ELSE "NaN"

(***************************************************************************)
(* Python values that cross the translation layer: a str, a tuple of ints, *)
(* a tuple of strs, an int, a float, None, or the exception a call raised  *)
(***************************************************************************)
PyStr(text) == [t |-> "str", s |-> text, ints |-> <<>>, strs |-> <<>>, f |-> FloatZero]

PyInts(q) == [t |-> "tuple", s |-> "", ints |-> q, strs |-> <<>>, f |-> FloatZero]

PyStrs(q) == [t |-> "tuple", s |-> "", ints |-> <<>>, strs |-> q, f |-> FloatZero]

PyInt(n) == [t |-> "int", s |-> "", ints |-> <<n>>, strs |-> <<>>, f |-> FloatZero]

PyFloat(a) == [t |-> "float", s |-> "", ints |-> <<>>, strs |-> <<>>, f |-> a]

PyNone == [t |-> "None", s |-> "", ints |-> <<>>, strs |-> <<>>, f |-> FloatZero]

PyRaise(exc) == [t |-> "raise", s |-> exc, ints |-> <<>>, strs |-> <<>>, f |-> FloatZero]

(***************************************************************************)
(* Translation between VULCAN's units and the external schema              *)
(***************************************************************************)
\* the characters of a str
Chars(text) == [i \in 1..Len(text) |-> SubSeq(text, i, i)]

\* eval(f"({','.join(col)})") for a str col: the tuple of its digits; '(2)' is an int
\* and a character that is no digit is a name or a syntax error
translateColExport(col) ==
  IF col.t = "tuple" /\ col.ints # <<>> THEN PyRaise("TypeError")
  ELSE LET chars == IF col.t = "str" THEN Chars(col.s) ELSE col.strs
           text  == join(chars)
       IN IF col.t \notin {"str", "tuple"} THEN PyRaise("TypeError")
          ELSE IF chars = <<>> THEN PyInts(<<>>)
          ELSE IF ~AllDigits(text) \/ \E i \in 1..Len(chars) : chars[i] = ""
          THEN PyRaise("SyntaxError")
          ELSE IF \E i \in 1..Len(chars) : SubSeq(chars[i], 1, 1) = "0" /\ int(chars[i]) # 0
          THEN PyRaise("SyntaxError")
          ELSE IF Len(chars) = 1 THEN PyInt(int(chars[1]))
          ELSE PyInts([i \in 1..Len(chars) |-> int(chars[i])])

\* translateCol(direction, col)
translateCol(direction, col) ==
  IF direction = "EXPORT" THEN translateColExport(col)
  ELSE IF direction = "IMPORT"
  THEN (IF col.t = "str" THEN col
        ELSE IF col.t = "tuple" /\ col.ints = <<>> THEN PyStr(join(col.strs))
        ELSE PyRaise("TypeError"))
  ELSE PyNone

\* translatePressure(direction, pressure): VULCAN has pressure in 0.1 Pa
translatePressure(direction, pressure) ==
  IF direction = "EXPORT" THEN PyFloat(FloatDiv(pressure.f, 10))
  ELSE IF direction = "IMPORT" THEN PyFloat(FloatMul(pressure.f, 10))
  ELSE PyNone

translateHeightInMetres(direction, height) ==
  IF direction = "EXPORT" THEN PyFloat(FloatDiv(height.f, 10))
  ELSE IF direction = "IMPORT" THEN PyFloat(FloatMul(height.f, 100))
  ELSE PyNone

\* translateHeight(direction, height): VULCAN has height in cm
translateHeight(direction, height) ==
  IF direction = "EXPORT" THEN PyFloat(FloatDiv(height.f, 100))
  ELSE IF direction = "IMPORT" THEN PyFloat(FloatMul(height.f, 100))
  ELSE PyNone

(***************************************************************************)
(* cfgVulcan: dictionaries are sequences of <<key, value>> pairs in        *)
(* insertion order; a configuration value is the text f'{value}' prints.   *)
(***************************************************************************)
DictKeys(d) == {d[i][1] : i \in 1..Len(d)}

\* d[k] = v
DictSet(d, k, v) ==
  IF k \in DictKeys(d)
  THEN [i \in 1..Len(d) |-> IF d[i][1] = k THEN <<k, v>> ELSE d[i]]
  ELSE Append(d, <<k, v>>)

\* {**d, **e}
RECURSIVE DictMerge(_, _)
DictMerge(d, e) ==
  IF e = <<>> THEN d ELSE DictMerge(DictSet(d, Head(e)[1], Head(e)[2]), Tail(e))

\* globalParameters['mistraVulcan']['boundPress'], as printed
boundPress == "100000.0"

\* the file as first written (lines 288-320), read back as cfgData
FirstCfgData(base, runType, runID) ==
  base \o
  << "# ================== global parameters - auto generated ================== #",
     "world_atmosphereDim = [" \o ToString(atmosphereDim[1]) \o ", "
                               \o ToString(atmosphereDim[2]) \o "]",
     "mistraVulcan_boundPress = " \o boundPress,
     "# ================== directories - auto generated ================== #",
     "master_dir = '" \o masterDir \o "'",
     "input_dir = '" \o inputDir \o "'",
     "output_dir = '" \o outputDir \o "'",
     "vulcan_framework_dir = '" \o vulcanFrameworkDir \o "'",
     "make_chem_funs = '" \o vulcanFrameworkDir \o "make_chem_funs.py'",
     "vulcan_runtime_dir = '" \o VulcanRuntimeDir \o "'",
     "vulcan_runtime_log = '" \o VulcanRuntimeLogFilePath \o "'",
     "# ================== vulcan column properties - auto generated ================== #",
     "run_type ='" \o runType \o "'",
     "run_num = '" \o runID \o "'" >>

\* the lines with line.split("=")[0].strip() == 'out_name'
OutNameLines(cfgData) ==
  SelectSeq(cfgData, LAMBDA line : strip(SplitFirst(line, "=")) = "out_name")

\* [0].split("=")[1].strip()[1:-1]
OutNameOf(cfgData) ==
  LET v == strip(SplitSecond(OutNameLines(cfgData)[1], "=")) IN SubSeq(v, 2, Len(v) - 1)

\* the translation loop over updateDict (lines 352-357): newValue keeps the value of
\* the last height- or pressure-named key; `have` says whether it is bound
RECURSIVE TranslateUpdate(_, _, _, _)
TranslateUpdate(upd, i, have, newValue) ==
  IF i > Len(upd) THEN [raised |-> "", upd |-> upd]
  ELSE LET key   == upd[i][1]
           value == upd[i][2]
           named == Contains(key, "Height") \/ Contains(key, "Pressure")
           nv    == IF Contains(key, "Height") THEN translateHeight("IMPORT", PyFloat(value)).f
                    ELSE IF Contains(key, "Pressure") THEN translateHeight("IMPORT", PyFloat(value)).f
                    ELSE newValue
       IN IF ~named /\ ~have THEN [raised |-> "UnboundLocalError", upd |-> upd]
          ELSE TranslateUpdate([upd EXCEPT ![i] = <<key, nv>>], i + 1, TRUE, nv)

\* json.dump(updateDict, file, indent=4), one line per key
JsonLines(upd) ==
  [i \in 1..Len(upd) |-> "\"" \o upd[i][1] \o "\": " \o FloatRepr(upd[i][2])]

ModifyAtmFilePathOf(outName, runID) ==
  VulcanRuntimeDir \o outName \o "-run-" \o runID \o "-modify_atm.json"

\* the loop over importCfgVulcan.items() (lines 344-368) from entry i on; st holds
\* modifyAtmFilePath, the runtime files, combineDict and importCfgVulcan
RECURSIVE ImportLoop(_, _, _, _, _)
ImportLoop(st, i, column, outName, runID) ==
  IF i > Len(st.imp) \/ st.raised # "" THEN st
  ELSE IF translateCol("IMPORT", st.imp[i].pos).t = "raise"
       THEN [st EXCEPT !.raised = translateCol("IMPORT", st.imp[i].pos).s]
       ELSE IF translateCol("IMPORT", st.imp[i].pos) # PyStr(column)
       THEN ImportLoop(st, i + 1, column, outName, runID)
       ELSE LET path == ModifyAtmFilePathOf(outName, runID)
                tr   == TranslateUpdate(st.imp[i].upd, 1, FALSE, FloatZero)
                imp2 == [st.imp EXCEPT ![i].upd = tr.upd]
            IN IF tr.raised # ""
               THEN [st EXCEPT !.modify = path, !.imp = imp2, !.raised = tr.raised]
               ELSE ImportLoop(
                      [st EXCEPT !.modify = path, !.imp = imp2,
                                 !.files = WriteFile(st.files, path, JsonLines(tr.upd)),
                                 !.combine = DictSet(DictSet(st.combine, "ini_mix", "'vulcan_ini_modify'"),
                                                     "atm_type", "'vulcan_ini_modify'")],
                      i + 1, column, outName, runID)

\* the positions of a populator key: positionString.replace(' ','').split(',')
PopulatorPositions(positionString) == split(replace(positionString, " ", ""), ",")

\* the loop over vulcanPopulator.items() (lines 371-374)
RECURSIVE PopulatorLoop(_, _, _, _)
PopulatorLoop(combine, ctrl, i, column) ==
  IF i > Len(vulcanPopulator) THEN combine
  ELSE LET poss == PopulatorPositions(vulcanPopulator[i].pos)
           hit  == \E j \in 1..Len(poss) : poss[j] = SubSeq(column, 2, Len(column))
       IN PopulatorLoop(IF hit THEN DictMerge(ctrl, vulcanPopulator[i].upd) ELSE combine,
                        ctrl, i + 1, column)

\* the replacement loop (lines 386-389): every line whose key is varName is rewritten
RECURSIVE ReplaceVars(_, _, _)
ReplaceVars(cfgData, combine, i) ==
  IF i > Len(combine) THEN cfgData
  ELSE ReplaceVars([n \in 1..Len(cfgData) |->
                      IF strip(SplitFirst(cfgData[n], "=")) = combine[i][1]
                      THEN combine[i][1] \o " = " \o combine[i][2]
                      ELSE cfgData[n]],
                   combine, i + 1)

\* mutant: the flag is left as the sources give it on every column
remakeChemFunsKept(combineDict, idx) == combineDict

\* lines 378-379: no chem funs are remade after the first column of a pass
remakeChemFunsOff(combineDict, idx) ==
  IF idx # 0 THEN DictSet(combineDict, "remake_chem_funs", "False") ELSE combineDict

\* cfgVulcan(index, column), with runID the self.currentRunID line 217 has just set:
\* the new working file and the fields it changes; `raised` names the exception that
\* ends it early
cfgVulcan(idx, column, runID) ==
  LET cfgData  == FirstCfgData(modelParametersVulcan, vulcanRunType, runID)
      failed(exc) == [cfgFile |-> cfgData, out_name |-> out_name, modify |-> modifyAtmFilePath,
                      files |-> runtimeFiles, ctrl |-> controllerCfgVulcan,
                      imp |-> importCfgVulcan, raised |-> exc]
  IN IF OutNameLines(cfgData) = <<>> THEN failed("IndexError")
     ELSE
     LET outName  == OutNameOf(cfgData)
         previousRunID == ToString(int(SubSeq(runID, 1, 1)) - 1) \o "-"
                          \o SubSeq(runID, Len(runID) - 2, Len(runID))
         previousRunFilePath == OutputFilePathOf(outName, previousRunID)
         latest   == DictSet(DictSet(DictSet(controllerCfgVulcan,
                                "ini_mix", "'vulcan_ini'"),
                                "atm_type", "'vulcan_ini'"),
                                "vul_ini_file_path", "'" \o previousRunFilePath \o "'")
         st0      == [modify |-> modifyAtmFilePath, files |-> runtimeFiles,
                      combine |-> latest, imp |-> importCfgVulcan, raised |-> ""]
         st       == IF vulcanRunType = "USE_LATEST_VUL"
                     THEN ImportLoop(st0, 1, column, outName, runID)
                     ELSE [st0 EXCEPT !.combine = controllerCfgVulcan]
         populated == IF vulcanRunType = "INITIAL_RUN"
                      THEN PopulatorLoop(controllerCfgVulcan, controllerCfgVulcan, 1, column)
                      ELSE st.combine
         \* combineDict is self.controllerCfgVulcan itself unless the populator made a new dict
         aliased  == vulcanRunType # "INITIAL_RUN"
                     \/ ~\E i \in 1..Len(vulcanPopulator) :
                           \E j \in 1..Len(PopulatorPositions(vulcanPopulator[i].pos)) :
                             PopulatorPositions(vulcanPopulator[i].pos)[j]
                               = SubSeq(column, 2, Len(column))
         combine1 == remakeChemFunsOff(populated, idx)
         combine  == DictSet(combine1, "P_b", boundPress)
     IN IF st.raised # ""
        THEN [cfgFile |-> cfgData, out_name |-> outName, modify |-> st.modify,
              files |-> st.files, ctrl |-> st.combine, imp |-> st.imp, raised |-> st.raised]
        ELSE [cfgFile |-> ReplaceVars(cfgData, combine, 1), out_name |-> outName,
              modify |-> st.modify, files |-> st.files,
              ctrl |-> IF aliased THEN combine ELSE controllerCfgVulcan,
              imp |-> st.imp, raised |-> ""]

(***************************************************************************)
(* generateColumns                                                         *)
(***************************************************************************)
\* for x in range(dim[0]): for y in range(dim[0]): f'2{x}{y}'
generateColumns ==
  LET n == atmosphereDim[1] IN
  [k \in 1..(n * n) |-> "2" \o ToString((k - 1) \div n) \o ToString((k - 1) % n)]

(***************************************************************************)
(* vulcanLog and vulcanOutput                                              *)
(***************************************************************************)
\* vulcanLog('a+', message): the lines of message are appended
LogAppend(log, lines) == log \o lines

\* mutant: the log is opened with 'w'
LogTruncate(log, lines) == lines

vulcanLog(log, lines) == LogAppend(log, lines)

\* the log of a fresh INITIAL_RUN (vulcanLog('w', ...))
VirginLog ==
  << "Virgin Vulcan = False", "Vulcan controller created: " \o Now,
     "Vulcan Python interpreter: python", "Vulcan initialized: " \o Now >>

\* the log lines x with x.split(' ')[0] == 'Run'
RunStrings(logLines) == SelectSeq(logLines, LAMBDA x : SplitFirst(x, " ") = "Run")

\* str(int(runString[4]) + 1) + '-' for the last 'Run' line
NextRunID(logLines) ==
  ToString(int(SubSeq(Last(RunStrings(logLines)), 5, 5)) + 1) \o "-"

(***************************************************************************)
(* Inputs and bounds                                                       *)
(***************************************************************************)
\* the controllers constructed one after the other on the same directories
MaxControllers == 3

RunTypes == {"INITIAL_RUN", "USE_LATEST_VUL", "NO_RUN", "EXPORT_ONLY"}

\* VulcanBaseParameters-2.txt
BaseFiles == { << "out_name = 'v'", "remake_chem_funs = True", "ini_mix = 'EQ'", "a = 1" >> }

\* VulcanCfgComparator.txt
Comparators == { << "run_num" >>,
                 << "run_num", "run_type", "ini_mix", "remake_chem_funs" >> }

\* globalParameters['world']['atmosphereDim']
Dims == { <<1, 1>> }

\* VulcanPopulator.json
Populators == { <<>> }

\* controllerCfgVulcan, from masterController
ControllerCfgs == { <<>> }

\* importCfgVulcan, from the other modules
ImportCfgs == { <<>>,
                << [pos |-> PyStrs(<<"2", "0", "0">>),
                    upd |-> << <<"upperHeight", FloatOfNat(5)>> >>] >> }

\* how a backend execution ends: before save_cfg, after save_cfg, or with its output
BackendOutcomes == {"fail_start", "fail_run", "ok"}

\* the atmospheres the backend computes, by name
Atmospheres == {"integral"}

NoFiles == [p \in {} |-> <<>>]

NoWrites == [p \in {} |-> 0]

\* no export has returned, no translation was called
NoPackage == [user |-> "", raised |-> "", runID |-> "", paths |-> {}, entries |-> {}]

NoCalls == <<>>

\* a config or result artifact of a run
IsRunArtifact(path) == Contains(path, "-cfgFile.txt") \/ Contains(path, "-output.vul")

\* the write counts after the files at `paths` are written
CountWrites(w, paths) ==
  [p \in DOMAIN w \cup {x \in paths : IsRunArtifact(x)} |->
     (IF p \in DOMAIN w THEN w[p] ELSE 0) + (IF p \in paths THEN 1 ELSE 0)]

(***************************************************************************)
(* The controller: __init__, vulcanOutput and the column loop              *)
(***************************************************************************)
\* no controller has run: the input directory holds the files of the given sets
InitOn(bases, comparators, dims, populators) ==
  /\ ledgerExists = FALSE
  /\ ledger = <<>>
  /\ runtimeFiles = NoFiles
  /\ cfgFile = <<>>
  /\ baseParameters \in bases
  /\ cfgComparator \in comparators
  /\ atmosphereDim \in dims
  /\ vulcanPopulator \in populators
  /\ vulcanRunType = ""
  /\ currentRunID = ""
  /\ out_name = ""
  /\ modifyAtmFilePath = ""
  /\ controllerCfgVulcan = <<>>
  /\ importCfgVulcan = <<>>
  /\ modelParametersVulcan = <<>>
  /\ columnsList = <<>>
  /\ index = 0
  /\ checkDupResult = DupNone
  /\ pc = "none"
  /\ raised = ""
  /\ controllers = 0
  /\ backend = ""
  /\ writes = NoWrites
  /\ firstCfgFile = <<>>
  /\ firstResult = DupNone
  /\ package = NoPackage
  /\ translated = NoCalls

InitWith(comparators, dims) == InitOn(BaseFiles, comparators, dims, Populators)

Init == InitWith(Comparators, Dims)

Disk == <<baseParameters, cfgComparator, atmosphereDim, vulcanPopulator>>

\* the variables only the duplicate check's own specification uses
First == <<firstCfgFile, firstResult>>

\* what the caller of the controller (masterController) holds
Caller == <<package, translated>>

\* no controller is running: none yet, or the last one returned or died
Idle == pc \in {"none", "done", "raised"}

\* mutant: a missing log is taken for a first run and created
vulcanOutputCreating(rt) ==
  IF rt = "INITIAL_RUN" \/ (rt # "NO_RUN" /\ ~ledgerExists)
  THEN [raised |-> "", runID |-> "1-", exists |-> TRUE, log |-> VirginLog, files |-> NoFiles]
  ELSE IF rt # "NO_RUN" /\ RunStrings(ledger) # <<>>
  THEN [raised |-> "", runID |-> NextRunID(ledger), exists |-> ledgerExists,
        log |-> ledger, files |-> runtimeFiles]
  ELSE [raised |-> IF rt = "NO_RUN" THEN "" ELSE "IndexError", runID |-> "1-",
        exists |-> ledgerExists, log |-> ledger, files |-> runtimeFiles]

\* mutant: an initial run empties the runtime directory and keeps the old log
vulcanOutputKeepingLog(rt) ==
  IF rt = "INITIAL_RUN"
  THEN [raised |-> "", runID |-> "1-", exists |-> TRUE,
        log |-> IF ledgerExists THEN ledger ELSE VirginLog, files |-> NoFiles]
  ELSE vulcanOutputCreating(rt)

\* vulcanOutput: the run ID prefix, the log and the runtime directory it leaves, or
\* the exception it raises
vulcanOutput(rt) ==
  IF rt = "INITIAL_RUN"
  THEN [raised |-> "", runID |-> "1-", exists |-> TRUE, log |-> VirginLog, files |-> NoFiles]
  ELSE IF rt # "NO_RUN"
  THEN (IF ~ledgerExists
        THEN [raised |-> "FileNotFoundError", runID |-> "1-", exists |-> ledgerExists,
              log |-> ledger, files |-> runtimeFiles]
        ELSE IF RunStrings(ledger) = <<>>
        THEN [raised |-> "IndexError", runID |-> "1-", exists |-> ledgerExists,
              log |-> ledger, files |-> runtimeFiles]
        ELSE [raised |-> "", runID |-> NextRunID(ledger), exists |-> ledgerExists,
              log |-> ledger, files |-> runtimeFiles])
  ELSE [raised |-> "", runID |-> "1-", exists |-> ledgerExists, log |-> ledger,
        files |-> runtimeFiles]

\* vulcanController(directories, ctrl, imp, rt): __init__ up to the column loop
NewController(rt, ctrl, imp) ==
  /\ Idle
  /\ controllers' = controllers + 1
  /\ checkDupResult' = DupNone
  /\ index' = 0
  /\ backend' = ""
  /\ controllerCfgVulcan' = ctrl
  /\ importCfgVulcan' = imp
  /\ out_name' = ""
  /\ modifyAtmFilePath' = ""
  /\ writes' = IF rt = "INITIAL_RUN" THEN NoWrites ELSE writes
  /\ package' = NoPackage
  /\ UNCHANGED <<Disk, First, translated>>
  /\ IF rt = "EXPORT_ONLY"
     THEN /\ vulcanRunType' = ""
          /\ currentRunID' = ""
          /\ modelParametersVulcan' = <<>>
          /\ columnsList' = <<>>
          /\ pc' = "done"
          /\ raised' = ""
          /\ UNCHANGED <<ledgerExists, ledger, runtimeFiles, cfgFile>>
     ELSE LET out == vulcanOutput(rt) IN
          /\ vulcanRunType' = rt
          /\ modelParametersVulcan' = baseParameters
          /\ cfgFile' = <<>>
          /\ currentRunID' = out.runID
          /\ ledgerExists' = out.exists
          /\ runtimeFiles' = out.files
          /\ raised' = out.raised
          /\ IF out.raised # ""
             THEN /\ pc' = "raised"
                  /\ columnsList' = <<>>
                  /\ ledger' = out.log
             ELSE IF rt = "NO_RUN"
             THEN /\ pc' = "done"
                  /\ columnsList' = <<>>
                  /\ ledger' = out.log
             ELSE /\ columnsList' = generateColumns
                  /\ ledger' = vulcanLog(out.log, << "Vulcan full run execute: " \o Now >>)
                  /\ pc' = IF generateColumns = <<>> THEN "done" ELSE "loop"

Construct ==
  /\ controllers < MaxControllers
  /\ \E rt \in RunTypes, ctrl \in ControllerCfgs, imp \in ImportCfgs :
       NewController(rt, ctrl, imp)

\* lines 216-225: the run ID, cfgVulcan and the three log lines of a configured column
Configure ==
  /\ pc = "loop"
  /\ LET column == columnsList[index + 1]
         runID  == SplitFirst(currentRunID, "-") \o "-" \o column
     IN /\ currentRunID' = runID
        /\ \E cfg \in {cfgVulcan(index, column, runID)} :
           /\ cfgFile' = cfg.cfgFile
           /\ out_name' = cfg.out_name
           /\ modifyAtmFilePath' = cfg.modify
           /\ runtimeFiles' = cfg.files
           /\ controllerCfgVulcan' = cfg.ctrl
           /\ importCfgVulcan' = cfg.imp
           /\ raised' = cfg.raised
           /\ IF cfg.raised # ""
              THEN /\ pc' = "raised"
                   /\ ledger' = vulcanLog(ledger, << "Vulcan column run: " \o runID >>)
              ELSE /\ pc' = "configured"
                   /\ ledger' = vulcanLog(vulcanLog(ledger, << "Vulcan column run: " \o runID >>),
                                  << "Vulcan configured: " \o Now,
                                     "Run " \o runID,
                                     "CfgFilePath: " \o CfgFilePathOf(cfg.out_name, runID) >>)
  /\ UNCHANGED <<Disk, ledgerExists, vulcanRunType, modelParametersVulcan, columnsList,
                 index, checkDupResult, controllers, backend, writes, First, Caller>>

\* line 228: checkDupResult = self.checkDup()
Classify ==
  /\ pc = "configured"
  /\ \E result \in {checkDup} :
       /\ checkDupResult' = result
       /\ raised' = result.exc
       /\ pc' = IF result.kind = "raise" THEN "raised" ELSE "classified"
  /\ UNCHANGED <<Disk, ledgerExists, ledger, runtimeFiles, cfgFile, vulcanRunType,
                 currentRunID, out_name, modifyAtmFilePath, controllerCfgVulcan,
                 importCfgVulcan, modelParametersVulcan, columnsList, index,
                 controllers, backend, writes, First, Caller>>

(***************************************************************************)
(* The simulation backend (runVulcan.py), as far as the controller sees it *)
(***************************************************************************)
\* the text of variable `name` in vulcan_cfg.py, "" when it is not set
VarOf(lines, name) ==
  LET set == {i \in 1..Len(lines) : HasEquals(lines[i]) /\ LineKey(lines[i]) = name}
  IN IF set = {} THEN "" ELSE LineValue(lines[Max(set)])

BackendVar(name) == VarOf(cfgFile, name)

\* runVulcan.py lines 24-28: the log line of a remade chem_funs.py
BackendChemFuns(log) ==
  IF BackendVar("remake_chem_funs") = "True"
  THEN log \o << "Vulcan - Making chem_funs.py: " \o Now >>
  ELSE log

\* output.save_cfg(): the working configuration is copied to the run's cfgFile.txt
BackendSaveCfg(files) == WriteFile(files, CfgFilePathOf(out_name, currentRunID), cfgFile)

\* output.save_out(): the result artifact of this run, the pickle of the atmosphere
\* the backend has computed
VulData(runID, atmosphere) == << "vul data of run " \o runID, atmosphere >>

BackendSaveOut(files, atmosphere) ==
  WriteFile(files, OutputFilePathOf(out_name, currentRunID), VulData(currentRunID, atmosphere))

\* the log line that records the result artifact
BackendLogOutput(log) ==
  log \o << "OutputFilePath: " \o OutputFilePathOf(out_name, currentRunID) >>

\* plot_vul.plot(): {...}-plot.png and {...}-plot.eps beside the result artifact
PlotPathOf(outName, runID, ext) ==
  replace(OutputFilePathOf(outName, runID), "-output.vul", "-plot") \o ext

BackendPlot(files) ==
  WriteFile(WriteFile(files, PlotPathOf(out_name, currentRunID, ".png"),
                      << "png of run " \o currentRunID >>),
            PlotPathOf(out_name, currentRunID, ".eps"), << "eps of run " \o currentRunID >>)

\* lines 230-240: the column is executed; os.system's return value is not looked at
ExecuteWith(outcomes, atmospheres) ==
  /\ pc = "classified"
  /\ checkDupResult.kind = "False"
  /\ \E outcome \in outcomes, atmosphere \in atmospheres :
       /\ backend' = outcome
       /\ LET started == vulcanLog(ledger, << "Vulcan column execute: " \o Now >>) IN
          IF outcome = "fail_start"
          THEN /\ ledger' = started
               /\ runtimeFiles' = runtimeFiles
               /\ writes' = writes
          ELSE IF outcome = "fail_run"
          THEN /\ ledger' = BackendChemFuns(started)
               /\ runtimeFiles' = BackendSaveCfg(runtimeFiles)
               /\ writes' = CountWrites(writes, {CfgFilePathOf(out_name, currentRunID)})
          ELSE /\ ledger' = BackendLogOutput(BackendChemFuns(started))
               /\ runtimeFiles' = BackendPlot(BackendSaveOut(BackendSaveCfg(runtimeFiles),
                                                             atmosphere))
               /\ writes' = CountWrites(writes, {CfgFilePathOf(out_name, currentRunID),
                                                 OutputFilePathOf(out_name, currentRunID)})
  /\ pc' = "ran"
  /\ UNCHANGED <<Disk, ledgerExists, cfgFile, vulcanRunType, currentRunID, out_name,
                 modifyAtmFilePath, controllerCfgVulcan, importCfgVulcan,
                 modelParametersVulcan, columnsList, index, checkDupResult, raised,
                 controllers, First, Caller>>

Execute == ExecuteWith(BackendOutcomes, Atmospheres)

(***************************************************************************)
(* CopyForward (lines 242-265)                                             *)
(***************************************************************************)
\* checkDupResult[0].split('-cfgFile.txt')[0].split('-run-')[-1]
SrcRunID(previousCfgFilePath) ==
  SplitLast(SplitFirst(previousCfgFilePath, "-cfgFile.txt"), "-run-")

\* prevOutputFilePathsFiltered_2: the paths that contain srcRunID and not '-cfgFile.txt'
RelatedFiles(files, srcRunID) ==
  {x \in DOMAIN files : Contains(x, srcRunID) /\ ~Contains(x, "-cfgFile.txt")}

\* lines 257-262: the copies are <<src, dst>> pairs; for every destination, the source
\* that is copied to it last
CopyOrders(copies) ==
  LET dsts == {c[2] : c \in copies}
  IN IF Cardinality(dsts) = Cardinality(copies)
     THEN {[d \in dsts |-> (CHOOSE c \in copies : c[2] = d)[1]]}
     ELSE {pick \in [dsts -> {c[1] : c \in copies}] :
             \A d \in dsts : <<pick[d], d>> \in copies}

CopyForward ==
  /\ pc = "classified"
  /\ checkDupResult.kind = "dup"
  /\ \E dstCfg \in {CfgFilePathOf(out_name, currentRunID)},
        srcRunID \in {SrcRunID(checkDupResult.prev)} :
       \E files1 \in {WriteFile(runtimeFiles, dstCfg, cfgFile)} :
         \E copies \in {{<<x, replace(x, srcRunID, currentRunID)>> :
                           x \in RelatedFiles(files1, srcRunID)}} :
           IF \E c \in copies : c[1] = c[2]
           THEN \* shutil.copyfile of a file onto itself
                /\ runtimeFiles' = files1
                /\ writes' = CountWrites(writes, {dstCfg})
                /\ raised' = "SameFileError"
                /\ pc' = "raised"
                /\ ledger' = ledger
           ELSE \* the order of os.listdir decides which source a shared destination keeps
                /\ \E dsts \in {{c[2] : c \in copies}}, pick \in CopyOrders(copies) :
                     /\ runtimeFiles' = [x \in DOMAIN files1 \cup dsts |->
                                           IF x \in dsts THEN files1[pick[x]] ELSE files1[x]]
                     /\ writes' = CountWrites(writes, {dstCfg} \cup dsts)
                /\ raised' = raised
                /\ pc' = "ran"
                /\ ledger' = vulcanLog(ledger, << "Vulcan column duplicate, srcRunID: "
                                                    \o srcRunID >>)
  /\ UNCHANGED <<Disk, ledgerExists, cfgFile, vulcanRunType, currentRunID, out_name,
                 modifyAtmFilePath, controllerCfgVulcan, importCfgVulcan,
                 modelParametersVulcan, columnsList, index, checkDupResult,
                 controllers, backend, First, Caller>>

\* mutant: the loop goes on to the next column without a completion event
RecordSilently ==
  /\ pc = "ran"
  /\ index' = index + 1
  /\ pc' = IF index + 1 < Len(columnsList) THEN "loop" ELSE "done"
  /\ UNCHANGED <<Disk, ledgerExists, ledger, runtimeFiles, cfgFile, vulcanRunType,
                 currentRunID, out_name, modifyAtmFilePath, controllerCfgVulcan,
                 importCfgVulcan, modelParametersVulcan, columnsList, checkDupResult,
                 raised, controllers, backend, writes, First, Caller>>

\* line 268: the completion event; the loop goes on to the next column
Record ==
  /\ pc = "ran"
  /\ ledger' = vulcanLog(ledger, << "Vulcan column complete: " \o Now, "Run " \o currentRunID >>)
  /\ index' = index + 1
  /\ pc' = IF index + 1 < Len(columnsList) THEN "loop" ELSE "done"
  /\ UNCHANGED <<Disk, ledgerExists, runtimeFiles, cfgFile, vulcanRunType, currentRunID,
                 out_name, modifyAtmFilePath, controllerCfgVulcan, importCfgVulcan,
                 modelParametersVulcan, columnsList, checkDupResult, raised, controllers,
                 backend, writes, First, Caller>>

(***************************************************************************)
(* vulcanExport                                                            *)
(***************************************************************************)
\* sep.join(parts)
RECURSIVE joinWith(_, _)
joinWith(sep, parts) ==
  IF parts = <<>> THEN ""
  ELSE IF Len(parts) = 1 THEN parts[1]
  ELSE parts[1] \o sep \o joinWith(sep, Tail(parts))

\* pickle.load of a result artifact: vul_data['atm']['zco'], ['pico'], ['Tco'] and
\* vul_data['variable']['species'], ['y'][0], for the atmospheres of the model; the
\* network of the second one has one species less
AtmosphereData(atmosphere) ==
  IF atmosphere = "integral"
  THEN [zco |-> <<FloatZero, FloatOfNat(50000)>>,
        pico |-> <<FloatOfNat(1000000), FloatOfNat(900000)>>,
        Tco |-> <<FloatOfNat(300)>>,
        species |-> <<"H2O", "OH">>, y |-> <<FloatOfNat(5), FloatOfNat(7)>>]
  ELSE [zco |-> <<FloatOfNat(10), FloatOfNat(30)>>,
        pico |-> <<FloatOfNat(1), FloatOfNat(3)>>,
        Tco |-> <<FloatRatio(1, 10)>>,
        species |-> <<"H2O">>, y |-> <<FloatRatio(1, 10)>>]

\* lines 599-618: the raw dict of a column
rawColumnDict(column, vul_data) ==
  [column |-> column,
   upperHeight |-> translateHeight("EXPORT", PyFloat(vul_data.zco[2])).f,
   lowerHeight |-> translateHeight("EXPORT", PyFloat(vul_data.zco[1])).f,
   upperPressure |-> translatePressure("EXPORT", PyFloat(vul_data.pico[2])).f,
   lowerPressure |-> translatePressure("EXPORT", PyFloat(vul_data.pico[1])).f,
   levelTemperature |-> vul_data.Tco[1],
   species |-> vul_data.species,
   density |-> vul_data.y]

\* nearestColumns(column)
nearestColumns(column) ==
  LET c0 == int(SubSeq(column, 1, 1))
      c1 == int(SubSeq(column, 2, 2))
      c2 == int(SubSeq(column, 3, 3))
      nearestList == << ToString(c0) \o ToString(c1 + 1) \o ToString(c2),
                        ToString(c0) \o ToString(c1 - 1) \o ToString(c2),
                        ToString(c0) \o ToString(c1) \o ToString(c2 - 1),
                        ToString(c0) \o ToString(c1) \o ToString(c2 + 1) >>
  IN SelectSeq(nearestList, LAMBDA x : ~Contains(x, "-"))

\* the orders in which list(set(...)) can hold up to four neighbours
Ranks == {rank \in [1..4 -> 1..4] : \A i, j \in 1..4 : rank[i] = rank[j] => i = j}

\* the list with the elements f[1], f[2], ...
ListOf(f) == SelectSeq(f, LAMBDA x : TRUE)

\* a list in the order given by rank
Ranked(list, rank) ==
  LET ranked == SelectSeq(rank, LAMBDA i : i <= Len(list))
  IN ListOf([i \in 1..Len(list) |-> list[ranked[i]]])

nearestListColumnsWithSelf(column, latestRunColumns) ==
  <<column>> \o SelectSeq(nearestColumns(column), LAMBDA x : x \in latestRunColumns)

\* set(self.nearestColumns(column)).intersection(latestRunColumns), as a list in some
\* order
nearestListColumns(column, latestRunColumns) ==
  SelectSeq(nearestColumns(column), LAMBDA x : x \in latestRunColumns)

\* F(v), with v computed once
At(F(_), v) == CHOOSE r \in {F(x) : x \in {v}} : TRUE

\* the sum numpy makes of a short list: left to right
RECURSIVE FloatSum(_, _, _)
FloatSum(values, i, acc) ==
  IF i > Len(values) THEN acc
  ELSE At(LAMBDA sum : FloatSum(values, i + 1, sum), FloatAdd(acc, values[i]))

averageOfFour(values) == At(LAMBDA sum : FloatDiv(sum, 4), FloatSum(values, 1, FloatZero))

\* np.average(values) of a list that is not empty
average(values) == At(LAMBDA sum : FloatDiv(sum, Len(values)), FloatSum(values, 1, FloatZero))

\* rawOutputAll[column]
RawAt(raws, column) == CHOOSE r \in raws : r.column = column

\* sp in rawOutputAll[col]['Number Density'], and its value
HasSpecies(raw, sp) == \E k \in 1..Len(raw.species) : raw.species[k] = sp

DensityOf(raw, sp) == raw.density[CHOOSE k \in 1..Len(raw.species) : raw.species[k] = sp]

\* the loop over a column ends with an exception
NoEntry(column, exc) ==
  [column |-> column, key |-> PyRaise(exc), raised |-> exc,
   lowerHeight |-> FloatNaN, upperHeight |-> FloatNaN, lowerPressure |-> FloatNaN,
   upperPressure |-> FloatNaN, levelTemperature |-> FloatNaN, density |-> <<>>, index |-> 0]

\* lines 622-648: the entry of a column from the raw dicts of its neighbours, the list
\* `near` of raw dicts. max() of an empty list raises ValueError (line 640); the
\* lookup of a species a neighbour does not report raises KeyError (line 644)
avgColumnDict(column, near) ==
  IF near = <<>> THEN NoEntry(column, "ValueError")
  ELSE
  LET longest  == Max({Len(near[i].species) : i \in 1..Len(near)})
      useSpCol == CHOOSE i \in 1..Len(near) :
                    /\ Len(near[i].species) = longest
                    /\ \A j \in 1..(i - 1) : Len(near[j].species) < longest
      species  == near[useSpCol].species
  IN IF \E k \in 1..Len(species), i \in 1..Len(near) : ~HasSpecies(near[i], species[k])
     THEN NoEntry(column, "KeyError")
     ELSE
     [column |-> column,
      key |-> translateCol("EXPORT", PyStr(column)),
      raised |-> "",
      lowerHeight |-> average([i \in 1..Len(near) |-> near[i].lowerHeight]),
      upperHeight |-> average([i \in 1..Len(near) |-> near[i].upperHeight]),
      lowerPressure |-> average([i \in 1..Len(near) |-> near[i].lowerPressure]),
      upperPressure |-> average([i \in 1..Len(near) |-> near[i].upperPressure]),
      levelTemperature |-> average([i \in 1..Len(near) |-> near[i].levelTemperature]),
      density |-> [k \in 1..Len(species) |->
                     <<species[k],
                       average([i \in 1..Len(near) |-> DensityOf(near[i], species[k])])>>],
      index |-> 0]

\* class Modules, the users of vulcanExport the model has
ExportUsers == {"MISTRA", "PHREEQC"}

\* lines 579-586: the run of the last OutputFilePath line of the log, its result
\* artifacts in vul-runtime and their columns
latestRun ==
  LET outputLines == SelectSeq(ledger, LAMBDA x : SplitFirst(x, "Path:") = "OutputFile")
  IN IF ~ledgerExists THEN [raised |-> "FileNotFoundError", runID |-> "", paths |-> {}]
     ELSE IF outputLines = <<>> THEN [raised |-> "IndexError", runID |-> "", paths |-> {}]
     ELSE
     LET outputLine == Last(outputLines)
         nameParts  == split(SplitLast(SplitFirst(outputLine, "-output."), "/"), "-")
         latestOutputRunID == joinWith("-", SubSeq(nameParts, 1, Len(nameParts) - 1))
     IN [raised |-> "", runID |-> latestOutputRunID,
         paths |-> {x \in DOMAIN runtimeFiles :
                      Contains(x, "-output") /\ Contains(x, latestOutputRunID \o "-")}]

\* path.split('-output.')[0].split(f'{latestOutputRunID}-')[1]
ColumnOf(path, latestOutputRunID) ==
  SplitSecond(SplitFirst(path, "-output."), latestOutputRunID \o "-")

\* lines 593-618: the raw dicts of the columns of the latest run
rawOutputAll(latest) ==
  {rawColumnDict(ColumnOf(path, latest.runID), AtmosphereData(runtimeFiles[path][2])) :
     path \in latest.paths}

\* the raw dicts of the neighbours of every column of the latest run
nearestOutputAll(raws) ==
  {[column |-> r.column,
    near |-> LET near == nearestListColumns(r.column, {x.column : x \in raws})
             IN ListOf([i \in 1..Len(near) |-> RawAt(raws, near[i])])] :
     r \in raws}

\* the entries of lines 622-648 for every column and every order of its neighbours
avgOutputAll(nears) ==
  {[column |-> cn[1], near |-> cn[2], entry |-> avgColumnDict(cn[1], cn[2])] :
     cn \in {<<n.column, Ranked(n.near, rank)>> : n \in nears, rank \in Ranks}}

\* the entries of the columns when the neighbour lists come in the order of rank
Selected(nears, avgs, rank) ==
  {a.entry : a \in {x \in avgs :
                      \E n \in nears : x.column = n.column /\ x.near = Ranked(n.near, rank)}}

\* the column whose exception ends the loop of line 621: the one the directory
\* listing puts first among those that raise, "" when none does
FirstRaising(selected) ==
  IF \A e \in selected : e.raised = "" THEN {""}
  ELSE {e.column : e \in {x \in selected : x.raised # ""}}

\* vulcanExport(user) on the latest run and the entries its columns average to: what
\* the call returns or raises, the run and the result artifacts it has read
vulcanExport(user, latest, selected, first) ==
  IF latest.raised # ""
  THEN [user |-> user, raised |-> latest.raised, runID |-> "", paths |-> {}, entries |-> {}]
  ELSE IF user # "MISTRA"
  THEN [user |-> user, raised |-> "", runID |-> latest.runID, paths |-> {}, entries |-> {}]
  ELSE IF first # ""
  THEN [user |-> user, raised |-> (CHOOSE e \in selected : e.column = first).raised,
        runID |-> latest.runID, paths |-> latest.paths, entries |-> {}]
  ELSE [user |-> user, raised |-> "", runID |-> latest.runID, paths |-> latest.paths,
        entries |-> selected]

\* a caller exports from a controller whose constructor has returned
Export ==
  /\ pc = "done"
  /\ \E user \in ExportUsers, latest \in {latestRun} :
       \E nears \in {IF user = "MISTRA" THEN nearestOutputAll(rawOutputAll(latest)) ELSE {}} :
         \E avgs \in {avgOutputAll(nears)} :
           \E selected \in {Selected(nears, avgs, rank) : rank \in Ranks} :
             \E first \in FirstRaising(selected) :
               package' = vulcanExport(user, latest, selected, first)
  /\ UNCHANGED <<Disk, ledgerExists, ledger, runtimeFiles, cfgFile, vulcanRunType,
                 currentRunID, out_name, modifyAtmFilePath, controllerCfgVulcan,
                 importCfgVulcan, modelParametersVulcan, columnsList, index,
                 checkDupResult, pc, raised, controllers, backend, writes, First,
                 translated>>

Next == Construct \/ Configure \/ Classify \/ Execute \/ CopyForward \/ Record \/ Export

Spec == Init /\ [][Next]_vars

(***************************************************************************)
(* A world of several columns                                              *)
(***************************************************************************)
GridControllers == 1

GridDims == { <<2, 2>> }

InitGrid == InitWith(Comparators, GridDims)

ConstructGrid ==
  /\ controllers < GridControllers
  /\ \E rt \in RunTypes, ctrl \in ControllerCfgs, imp \in ImportCfgs :
       NewController(rt, ctrl, imp)

NextGrid == ConstructGrid \/ Configure \/ Classify \/ Execute \/ CopyForward \/ Record

SpecGrid == InitGrid /\ [][NextGrid]_vars

(***************************************************************************)
(* Many controllers, one after the other, on the same ledger               *)
(***************************************************************************)
LongControllers == 11

LongRunTypes == {"INITIAL_RUN", "USE_LATEST_VUL"}

InitLong == InitWith({ << "run_num" >> }, { <<1, 1>> })

ConstructLong ==
  /\ controllers < LongControllers
  /\ \E rt \in LongRunTypes : NewController(rt, <<>>, <<>>)

NextLong == ConstructLong \/ Configure \/ Classify \/ Execute \/ CopyForward \/ Record

SpecLong == InitLong /\ [][NextLong]_vars

(***************************************************************************)
(* checkDup on its own: a candidate vulcan_cfg.py, a ledger that records   *)
(* up to MaxHistory earlier configurations, and an ignore-list             *)
(***************************************************************************)
MaxHistory == 2

\* the variables of VulcanBaseParameters-2.txt behind a configuration
DupBases ==
  { << "out_name = 'v'", "a = 1", "b = 'x'" >>,
    << "out_name = 'v'", "a = 1.0  # one", "b = \"x\"" >>,
    << "out_name = 'v'", "a = 2", "b = 'x'" >>,
    << "out_name = 'v'", "a = 1" >>,
    << "out_name = 'v'", "a = 'p#q'", "b = 'x'" >>,
    << "out_name = 'v'", "a = 1", "b" >> }

\* those behind the configurations the ledger records
DupHistoryBases ==
  { << "out_name = 'v'", "a = 1", "b = 'x'" >>,
    << "out_name = 'v'", "a = 1" >>,
    << "out_name = 'v'", "a = 'p#q'", "b = 'x'" >> }

\* VulcanCfgComparator.txt: the run number, also a variable, or every variable
DupComparators ==
  { << "run_num" >>,
    << "run_num", " a " >>,
    << "run_num", "run_type", "out_name", "a", "b", "world_atmosphereDim",
       "mistraVulcan_boundPress", "master_dir", "input_dir", "output_dir",
       "vulcan_framework_dir", "make_chem_funs", "vulcan_runtime_dir",
       "vulcan_runtime_log" >> }

\* the values an ignored variable is given between two checks
IgnoredTexts == { "7", "'p#q'" }

\* the run of the i-th recorded configuration, and the candidate's run
HistoryRunID(i) == "1-20" \o ToString(i - 1)

CandidateRunID == "2-200"

\* the ledger of n recorded runs and the candidate's (lines 224 and 268)
DupLedger(n) ==
  [k \in 1..(2 * (n + 1)) |->
     LET runID == IF (k + 1) \div 2 <= n THEN HistoryRunID((k + 1) \div 2)
                  ELSE CandidateRunID
     IN IF k % 2 = 1 THEN "Run " \o runID
        ELSE "CfgFilePath: " \o CfgFilePathOf("v", runID)]

\* vul-runtime with the recorded configurations, and the side artifact if one is pending
DupFiles(hist, pending) ==
  [p \in {CfgFilePathOf("v", HistoryRunID(i)) : i \in 1..Len(hist)}
         \cup (IF pending THEN {ModifyAtmFilePathOf("v", CandidateRunID)} ELSE {}) |->
     IF p = ModifyAtmFilePathOf("v", CandidateRunID)
     THEN JsonLines(<< <<"upperHeight", FloatOfNat(500)>> >>)
     ELSE LET i == CHOOSE i \in 1..Len(hist) : CfgFilePathOf("v", HistoryRunID(i)) = p
          IN FirstCfgData(hist[i], "USE_LATEST_VUL", HistoryRunID(i))]

\* a controller that has configured its column and is about to call checkDup
InitDup ==
  /\ ledgerExists = TRUE
  /\ atmosphereDim = <<1, 1>>
  /\ \E n \in 0..MaxHistory : \E hist \in [1..n -> DupHistoryBases] : \E pending \in BOOLEAN :
       /\ ledger = DupLedger(n)
       /\ runtimeFiles = DupFiles(hist, pending)
       /\ modifyAtmFilePath = IF pending THEN ModifyAtmFilePathOf("v", CandidateRunID) ELSE ""
  /\ baseParameters \in DupBases
  /\ cfgFile = FirstCfgData(baseParameters, "USE_LATEST_VUL", CandidateRunID)
  /\ modelParametersVulcan = baseParameters
  /\ cfgComparator \in DupComparators
  /\ vulcanPopulator = <<>>
  /\ vulcanRunType = "USE_LATEST_VUL"
  /\ currentRunID = CandidateRunID
  /\ out_name = "v"
  /\ controllerCfgVulcan = <<>>
  /\ importCfgVulcan = <<>>
  /\ columnsList = << "200" >>
  /\ index = 0
  /\ checkDupResult = DupNone
  /\ pc = "configured"
  /\ raised = ""
  /\ controllers = 1
  /\ backend = ""
  /\ writes = NoWrites
  /\ firstCfgFile = <<>>
  /\ firstResult = DupNone
  /\ package = NoPackage
  /\ translated = NoCalls

\* checkDup has returned or raised
Classified == pc \in {"classified", "raised"}

\* the lines rewritten between two checks: a base parameter or the run number
RewrittenLines == (1..Len(baseParameters)) \cup {Len(cfgFile)}

\* a second candidate for the same history: the value of one ignored variable is rewritten
RewriteIgnored ==
  /\ Classified
  /\ firstResult = DupNone
  /\ \E n \in RewrittenLines : \E text \in IgnoredTexts :
       /\ HasEquals(cfgFile[n])
       /\ \E i \in 1..Len(cfgComparator) : strip(cfgComparator[i]) = LineKey(cfgFile[n])
       /\ cfgFile' = [cfgFile EXCEPT ![n] = LineKey(cfgFile[n]) \o " = " \o text]
  /\ firstCfgFile' = cfgFile
  /\ firstResult' = checkDupResult
  /\ checkDupResult' = DupNone
  /\ raised' = ""
  /\ pc' = "configured"
  /\ UNCHANGED <<Disk, ledgerExists, ledger, runtimeFiles, vulcanRunType, currentRunID,
                 out_name, modifyAtmFilePath, controllerCfgVulcan, importCfgVulcan,
                 modelParametersVulcan, columnsList, index, controllers, backend, writes,
                 Caller>>

NextDup == Classify \/ RewriteIgnored

SpecDup == InitDup /\ [][NextDup]_vars

(***************************************************************************)
(* What the properties below speak of                                      *)
(***************************************************************************)
\* whether sequence a is a prefix of sequence b
IsPrefix(a, b) == Len(a) <= Len(b) /\ SubSeq(b, 1, Len(a)) = a

\* the variable map of the candidate, and of the recorded artifact at `path`
LatestDict == checkDupLinesToDict(cfgFile, IgnoreVarList(cfgComparator))

PriorDict(path) == checkDupLinesToDict(runtimeFiles[path], IgnoreVarList(cfgComparator))

\* the prior config artifacts the ledger lists
Elements(seq) == {seq[i] : i \in 1..Len(seq)}

PriorPaths == Elements(PreviousCfgFilePaths(CfgFilePathAll(ledger)))

\* a prior artifact with a map, and one whose map is the candidate's
HasDict(path) == path \in DOMAIN runtimeFiles /\ PriorDict(path).st = "dict"

EqualPrior(path) == HasDict(path) /\ LatestDict.st = "dict" /\ PriorDict(path).d = LatestDict.d

\* how the lines of a file parse, before any name is ignored
Parse(lines) == LinesLoop(CodeLines(lines), 1, DictOf(<<>>)).st

\* no side artifact is pending for the current column
NoSidePending == modifyAtmFilePath \notin DOMAIN runtimeFiles

\* the generation of a 'Run g-c' line of the ledger, and the highest one recorded
GenerationOf(runString) == int(SplitFirst(SplitSecond(runString, " "), "-"))

HighestOf(runStrings) ==
  Max({GenerationOf(runStrings[i]) : i \in 1..Len(runStrings)})

HighestGeneration == HighestOf(RunStrings(ledger))

\* the run identifiers issued so far, from the 'Vulcan column run' events of the ledger
IssuedRunIDs == SelectSeq(ledger, LAMBDA x : SplitFirst(x, ":") = "Vulcan column run")

NoneTwice(seq) == Cardinality(Elements(seq)) = Len(seq)

(***************************************************************************)
(* Properties                                                              *)
(***************************************************************************)
\* C1: with no side artifact pending, checkDup returns a reuse whenever the ledger
\* lists a prior config artifact whose variable map, after the ignored names are
\* removed, equals the candidate's map (empty maps included).
C1_ReuseWheneverEqualPrior ==
  (Classified /\ NoSidePending /\ \E path \in PriorPaths : EqualPrior(path))
    => checkDupResult.kind = "dup"

C3_AnyIgnoredValue ==
  (Classified /\ firstResult # DupNone) => checkDupResult = firstResult

\* C3: two checks over the same history whose candidates differ only in the values of
\* ignored variables have the same outcome, provided every line of both candidates,
\* the ignored ones too, parses into a name and a literal value.
C3_IgnoreListIndependence ==
  (Classified /\ firstResult # DupNone
     /\ Parse(firstCfgFile) = "dict" /\ Parse(cfgFile) = "dict")
    => checkDupResult = firstResult

\* C3 witness: a reuse is found again after an ignored value was rewritten
C3_Witness ==
  /\ pc = "classified"
  /\ firstResult.kind = "dup"
  /\ checkDupResult.kind = "dup"
  /\ cfgFile # firstCfgFile
  /\ Parse(cfgFile) = "dict"

\* C4: when the candidate has a non-comment line that does not parse into a name and a
\* literal value, checkDup returns Fresh: no reuse and no exception.
C4_CandidateFailOpen ==
  (Classified /\ Parse(cfgFile) # "dict") => checkDupResult.kind = "False"

\* C5: when a prior artifact of the ledger holds a value that is no literal and the
\* candidate parses, checkDup raises no exception and does not reuse that artifact.
C5_HistoryFailOpen ==
  (Classified /\ Parse(cfgFile) = "dict") =>
    \A path \in PriorPaths :
      (path \in DOMAIN runtimeFiles /\ Parse(runtimeFiles[path]) = "False")
        => /\ checkDupResult.kind # "raise"
           /\ ~(checkDupResult.kind = "dup" /\ checkDupResult.prev = path)

\* C6: after CopyForward the current run holds a result artifact at its own path with
\* the content of the reused run's result artifact.
C6_ReuseCopiesResult ==
  (pc = "ran" /\ checkDupResult.kind = "dup") =>
    LET src == replace(checkDupResult.prev, "-cfgFile.txt", "-output.vul")
        dst == OutputFilePathOf(out_name, currentRunID)
    IN /\ src \in DOMAIN runtimeFiles
       /\ dst \in DOMAIN runtimeFiles
       /\ runtimeFiles[dst] = runtimeFiles[src]

\* C7: a controller that is not an initial run starts with the generation one above the
\* highest generation the ledger records, and no run identifier is issued twice.
C7_GenerationIsNext ==
  /\ (pc = "loop" /\ index = 0 /\ vulcanRunType # "INITIAL_RUN")
       => int(SplitFirst(currentRunID, "-")) = HighestGeneration + 1
  /\ NoneTwice(IssuedRunIDs)

\* C8: every step but the start of an INITIAL_RUN controller leaves the ledger's
\* content as a prefix of its new content.
C8_LedgerAppendOnly ==
  [][(controllers' = controllers \/ vulcanRunType' # "INITIAL_RUN")
       => IsPrefix(ledger, ledger')]_vars

\* C8 witness: a controller that is not an initial run has run a column on a ledger
\* that records an earlier controller's column
C8_Witness ==
  /\ vulcanRunType = "USE_LATEST_VUL"
  /\ pc = "done"
  /\ Len(CfgFilePathAll(ledger)) = 2
  /\ IsPrefix(VirginLog, ledger)

\* C9: every config-artifact path of an earlier column that checkDup reads from the
\* ledger names a file that exists.
C9_EarlierCfgPersisted ==
  pc = "configured" => \A path \in PriorPaths : path \in DOMAIN runtimeFiles

\* C10: no config or result artifact is written twice at the same path between two
\* initial runs.
C10_ArtifactsImmutable == \A path \in DOMAIN writes : writes[path] <= 1

\* C17: a controller whose run type is USE_LATEST_VUL and that finds no ledger file
\* ends its construction with an exception: no ledger is created, the runtime
\* directory is left as it was and no column is configured, classified or recorded.
C17_MissingLedgerIsFatal ==
  [][(controllers' = controllers + 1 /\ vulcanRunType' = "USE_LATEST_VUL" /\ ~ledgerExists)
       => /\ pc' = "raised"
          /\ raised' = "FileNotFoundError"
          /\ ~ledgerExists'
          /\ ledger' = ledger
          /\ runtimeFiles' = runtimeFiles
          /\ columnsList' = <<>>
          /\ checkDupResult' = DupNone]_vars

\* C17 witness: a USE_LATEST_VUL controller has died on the missing ledger
C17_Witness ==
  /\ vulcanRunType = "USE_LATEST_VUL"
  /\ pc = "raised"
  /\ raised = "FileNotFoundError"
  /\ ~ledgerExists

\* a side artifact was written for the current column
SideWritten ==
  /\ modifyAtmFilePath = ModifyAtmFilePathOf(out_name, currentRunID)
  /\ modifyAtmFilePath \in DOMAIN runtimeFiles

\* C20: when a side artifact was written for the current column, checkDup returns
\* Fresh, whatever the ledger records, a prior artifact equal to the candidate included.
C20_SidePendingIsFresh ==
  (Classified /\ SideWritten) => checkDupResult.kind = "False"

\* C20 witness: Fresh with a side artifact pending and a prior artifact equal to the
\* candidate
C20_Witness ==
  /\ pc = "classified"
  /\ SideWritten
  /\ checkDupResult.kind = "False"
  /\ \E path \in PriorPaths : EqualPrior(path)


(***************************************************************************)
(* The assembler on inputs that several sources supply: controllers with   *)
(* overrides, a populator and import mappings                              *)
(***************************************************************************)
AssembleControllers == 2

AssembleRunTypes == {"INITIAL_RUN", "USE_LATEST_VUL"}

\* VulcanBaseParameters-2.txt, with VULCAN's own output_dir and P_b lines
AssembleBases ==
  { << "out_name = 'v'", "remake_chem_funs = True", "ini_mix = 'EQ'", "atm_type = 'file'",
       "output_dir = 'output/'", "P_b = 1e6", "a = 1" >> }

\* VulcanPopulator.json: no entry, or an entry for the column at (0, 0)
AssemblePopulators == { <<>>, << [pos |-> "0 0, 00", upd |-> << <<"a", "5">>, <<"b", "6">> >>] >> }

\* controllerCfgVulcan, from masterController
AssembleControllerCfgs == { <<>>, << <<"ini_mix", "'CTRL'">>, <<"a", "3">>, <<"b", "4">> >> }

\* importCfgVulcan, from the other modules: keyed by the column as a string or as the
\* integer tuple of the external schema
AssembleImportCfgs ==
  { <<>>,
    << [pos |-> PyStr("200"),
        upd |-> << <<"upperHeight", FloatOfNat(5)>>, <<"upperPressure", FloatOfNat(7)>> >>] >>,
    << [pos |-> PyInts(<<2, 0, 0>>), upd |-> << <<"upperHeight", FloatOfNat(5)>> >>] >>,
    << [pos |-> PyStr("200"),
        upd |-> << <<"levelTemperature", FloatOfNat(3)>>, <<"upperHeight", FloatOfNat(5)>> >>] >>,
    << [pos |-> PyStr("200"),
        upd |-> << <<"upperHeight", FloatOfNat(5)>>, <<"levelTemperature", FloatOfNat(3)>> >>] >> }

\* VulcanCfgComparator.txt: what a reuse pass changes is ignored
AssembleComparators == { << "run_num", "run_type", "ini_mix", "atm_type" >> }

InitAssemble == InitOn(AssembleBases, AssembleComparators, Dims, AssemblePopulators)

ConstructAssemble ==
  /\ controllers < AssembleControllers
  /\ \E rt \in AssembleRunTypes, ctrl \in AssembleControllerCfgs, imp \in AssembleImportCfgs :
       NewController(rt, ctrl, imp)

NextAssemble == ConstructAssemble \/ Configure \/ Classify \/ Execute \/ CopyForward \/ Record

SpecAssemble == InitAssemble /\ [][NextAssemble]_vars


(***************************************************************************)
(* What the assembler is to do with the overrides                          *)
(***************************************************************************)
\* the column the next call of cfgVulcan configures
NextColumn == columnsList[index + 1]

\* the entries of the import mapping the loop of lines 344-347 matches with the column
MatchedEntries ==
  {i \in 1..Len(importCfgVulcan) :
     translateCol("IMPORT", importCfgVulcan[i].pos) = PyStr(NextColumn)}

\* a line of the side artifact
JsonLine(key, value) == "\"" \o key \o "\": " \o FloatRepr(value)

\* the side artifact of the current run
SideLines == runtimeFiles[modifyAtmFilePath]

\* C14: when cfgVulcan writes the side artifact of a column, each pressure-named value
\* of the column's override payload is written multiplied by 10 and each height-named
\* value multiplied by 100.
C14_ImportUnits ==
  [][(pc = "loop" /\ MatchedEntries # {} /\ SideWritten')
       => LET upd == importCfgVulcan[Max(MatchedEntries)].upd
          IN \A k \in 1..Len(upd) :
               /\ Contains(upd[k][1], "Height")
                    => SideLines'[k] = JsonLine(upd[k][1], FloatMul(upd[k][2], 100))
               /\ (Contains(upd[k][1], "Pressure") /\ ~Contains(upd[k][1], "Height"))
                    => SideLines'[k] = JsonLine(upd[k][1], FloatMul(upd[k][2], 10))]_vars

\* the key of an import mapping names the column: as the string, as a tuple of its
\* characters, or as the integer tuple of the external schema
EntryFor(pos, column) ==
  \/ pos = PyStr(column)
  \/ pos = PyStrs(Chars(column))
  \/ pos = translateCol("EXPORT", PyStr(column))

\* C19: on a USE_LATEST_VUL pass, when the import mapping has an entry for the column
\* being configured, cfgVulcan writes the payload to the side artifact and the
\* assembled vulcan_cfg.py has a variable whose value holds the side artifact's path.
C19_SidePathInConfig ==
  [][(pc = "loop" /\ vulcanRunType = "USE_LATEST_VUL"
        /\ \E i \in 1..Len(importCfgVulcan) : EntryFor(importCfgVulcan[i].pos, NextColumn))
       => /\ SideWritten'
          /\ \E n \in 1..Len(cfgFile') :
               /\ HasEquals(cfgFile'[n])
               /\ Contains(LineValue(cfgFile'[n]), modifyAtmFilePath')]_vars

\* the (name, value) pairs of the lines a to b of a file
RECURSIVE LinePairs(_, _, _)
LinePairs(lines, a, b) ==
  IF a > b THEN <<>>
  ELSE << <<LineKey(lines[a]), LineValue(lines[a])>> >> \o LinePairs(lines, a + 1, b)

\* the values the sources supply to cfgVulcan for the next column, source by source:
\* the base file (289-290), the global parameters (293-296), the directories (299-316),
\* the values derived from the run type (319, 335-341), the controller's overrides
\* (331), the populator's (371-374) and what an import entry sets (367-368)
Sources ==
  LET first == FirstCfgData(modelParametersVulcan, vulcanRunType, currentRunID)
      L     == Len(modelParametersVulcan)
      hits  == {i \in 1..Len(vulcanPopulator) :
                  \E j \in 1..Len(PopulatorPositions(vulcanPopulator[i].pos)) :
                    PopulatorPositions(vulcanPopulator[i].pos)[j]
                      = SubSeq(NextColumn, 2, Len(NextColumn))}
  IN << LinePairs(first, 1, L),
        LinePairs(first, L + 2, L + 3),
        LinePairs(first, L + 5, L + 11),
        IF vulcanRunType = "USE_LATEST_VUL"
        THEN << <<"ini_mix", "'vulcan_ini'">>, <<"atm_type", "'vulcan_ini'">> >> ELSE <<>>,
        controllerCfgVulcan,
        IF vulcanRunType = "INITIAL_RUN" /\ hits # {} THEN vulcanPopulator[Max(hits)].upd ELSE <<>>,
        IF vulcanRunType = "USE_LATEST_VUL" /\ MatchedEntries # {}
        THEN << <<"ini_mix", "'vulcan_ini_modify'">>, <<"atm_type", "'vulcan_ini_modify'">> >>
        ELSE <<>> >>

\* the sources that supply the variable
Supplying(srcs, name) == {k \in 1..Len(srcs) : name \in DictKeys(srcs[k])}

\* the value of the variable in the latest of its sources
LatestSupplied(srcs, name) ==
  LET src == srcs[Max(Supplying(srcs, name))]
  IN src[Max({k \in 1..Len(src) : src[k][1] = name})][2]

\* C18: a variable that more than one source supplies has, in the assembled
\* vulcan_cfg.py, the value of the latest of its sources in the order base file,
\* global parameters, directories, run-type-derived values, controller overrides,
\* populator overrides, import overrides.
C18_MergePrecedence ==
  [][(pc = "loop" /\ pc' = "configured")
       => \E srcs \in {Sources} :
            \A k \in 1..Len(srcs) : \A name \in DictKeys(srcs[k]) :
              Cardinality(Supplying(srcs, name)) > 1
                => VarOf(cfgFile', name) = LatestSupplied(srcs, name)]_vars


(***************************************************************************)
(* The translation functions called by a caller, a call on a fresh         *)
(* argument followed by calls of the same function on the result           *)
(***************************************************************************)
MaxCalls == 2

\* class directions
Directions == {"IMPORT", "EXPORT"}

\* the columns generateColumns makes for worlds up to 3x3
ValidColumns == {"2" \o x \o y : x \in {"0", "1", "2"}, y \in {"0", "1", "2"}}

\* columns as a caller passes them: the internal strings, tuples of the external
\* schema, tuples of characters, and the empty string
ColArgs ==
  {PyStr(c) : c \in ValidColumns}
    \cup {PyInts(<<2, 0, 1>>), PyStrs(<<"2", "1", "0">>), PyInt(2), PyStr(""), PyStr("2a0")}

\* heights and pressures: 0.0, integers, 0.25, 0.028, 0.11, 0.1, 2.0 ** 1023
FloatArgs ==
  {FloatZero, FloatOfNat(5), FloatOfNat(500), FloatOfNat(100000), FloatRatio(1, 4),
   FloatRatio(7, 250), FloatRatio(11, 100), FloatRatio(1, 10), FloatHuge}

\* the arguments of the next call of function fn
NextArgs(fn, fresh) ==
  IF translated = NoCalls THEN fresh
  ELSE IF Last(translated).fn = fn /\ Last(translated).result.t \notin {"raise", "None"}
  THEN {Last(translated).result}
  ELSE {}

Called(fn, direction, arg, result) ==
  /\ Len(translated) < MaxCalls
  /\ translated' = Append(translated,
                     [fn |-> fn, direction |-> direction, arg |-> arg, result |-> result])
  /\ UNCHANGED <<Disk, ledgerExists, ledger, runtimeFiles, cfgFile, vulcanRunType,
                 currentRunID, out_name, modifyAtmFilePath, controllerCfgVulcan,
                 importCfgVulcan, modelParametersVulcan, columnsList, index,
                 checkDupResult, pc, raised, controllers, backend, writes, First, package>>

CallTranslateCol ==
  \E direction \in Directions, col \in NextArgs("translateCol", ColArgs) :
    Called("translateCol", direction, col, translateCol(direction, col))

CallTranslateHeight ==
  \E direction \in Directions, height \in NextArgs("translateHeight", {PyFloat(a) : a \in FloatArgs}) :
    Called("translateHeight", direction, height, translateHeight(direction, height))

CallTranslatePressure ==
  \E direction \in Directions, pressure \in NextArgs("translatePressure", {PyFloat(a) : a \in FloatArgs}) :
    Called("translatePressure", direction, pressure, translatePressure(direction, pressure))

NextTranslate == CallTranslateCol \/ CallTranslateHeight \/ CallTranslatePressure

SpecTranslate == Init /\ [][NextTranslate]_vars

\* call i is fn in the direction and call i + 1 is fn in the other direction on its result
RoundTrip(i, fn, direction) ==
  /\ i + 1 \in DOMAIN translated
  /\ translated[i].fn = fn /\ translated[i].direction = direction
  /\ translated[i + 1].fn = fn /\ translated[i + 1].direction # direction
  /\ translated[i + 1].arg = translated[i].result

\* (const, x, y) of a column string
ColumnTuple(c) == PyInts([k \in 1..Len(c) |-> int(SubSeq(c, k, k))])

\* C12: for a valid column c = '{const}{x}{y}', translateCol(EXPORT, c) is the integer
\* tuple (const, x, y), and translateCol(IMPORT, .) of that tuple is c again.
C12_ColumnRoundTrip ==
  \A i \in DOMAIN translated :
    (translated[i].fn = "translateCol" /\ translated[i].direction = "EXPORT"
       /\ translated[i].arg \in {PyStr(c) : c \in ValidColumns})
      => /\ translated[i].result = ColumnTuple(translated[i].arg.s)
         /\ RoundTrip(i, "translateCol", "EXPORT") => translated[i + 1].result = translated[i].arg

\* C13 as stated: exporting an imported height or pressure gives the value back, for
\* every value.
C13_UnitRoundTrip ==
  \A i \in DOMAIN translated : \A fn \in {"translateHeight", "translatePressure"} :
    RoundTrip(i, fn, "IMPORT") => translated[i + 1].result = translated[i].arg

\* the factor between the external and the internal unit
UnitFactor(fn) == IF fn = "translateHeight" THEN 100 ELSE 10

\* C13: exporting an imported height or pressure gives the value back whenever the
\* imported value, the product with 100 or 10, is a float without rounding.
C13_ExactRoundTrip ==
  \A i \in DOMAIN translated : \A fn \in {"translateHeight", "translatePressure"} :
    (RoundTrip(i, fn, "IMPORT") /\ FloatMulRounded(translated[i].arg.f, UnitFactor(fn)).exact)
      => translated[i + 1].result = translated[i].arg

C13_Witness ==
  /\ RoundTrip(1, "translateHeight", "IMPORT")
  /\ translated[1].arg = PyFloat(FloatRatio(1, 4))
  /\ translated[1].result = PyFloat(FloatOfNat(25))
  /\ translated[2].result = translated[1].arg


(***************************************************************************)
(* What vulcanExport is to aggregate                                       *)
(***************************************************************************)
\* the 'Run g-c' lines that follow a 'Vulcan column complete' line
CompleteRuns ==
  {ledger[i + 1] : i \in {j \in 1..(Len(ledger) - 1) :
                            SplitFirst(ledger[j], ":") = "Vulcan column complete"}}

\* the generations all of whose columns are recorded complete
CompletedPasses ==
  {g \in 1..controllers :
     /\ generateColumns # <<>>
     /\ \A k \in 1..Len(generateColumns) :
          ("Run " \o ToString(g) \o "-" \o generateColumns[k]) \in CompleteRuns}

\* the generation of a result artifact '{out_name}-run-{g}-{column}-output.vul'
GenerationOfPath(path) == int(SplitFirst(SplitLast(path, "-run-"), "-"))

\* the result artifacts of the most recent completed pass
LatestPassOutputs ==
  {x \in DOMAIN runtimeFiles :
     Contains(x, "-output.") /\ GenerationOfPath(x) = Max(CompletedPasses)}

\* C11: a MISTRA export made after a pass was completed reads exactly the result
\* artifacts of the most recent completed pass, whether its columns were executed or
\* copied forward.
C11_ExportsLatestPass ==
  (package.user = "MISTRA" /\ CompletedPasses # {}) => package.paths = LatestPassOutputs

\* the column of a result artifact '{out_name}-run-{g}-{column}-output.vul'
ColumnOfPath(path) == SplitLast(SplitFirst(path, "-output."), "-")

\* the axis-adjacent columns of the column among the given ones
Adjacent(column, columns) == Elements(nearestColumns(column)) \cap columns

\* C16: when a column of the run a MISTRA export reads has no axis-adjacent column in
\* that run, the export raises and returns no package; no returned entry is an average
\* over an empty set of neighbours.
C16_EmptyNeighboursRaise ==
  /\ (package.user = "MISTRA"
        /\ \E x \in package.paths :
             Adjacent(ColumnOfPath(x), {ColumnOfPath(y) : y \in package.paths}) = {})
       => package.raised # "" /\ package.entries = {}
  /\ \A e \in package.entries :
       Adjacent(e.column, {d.column : d \in package.entries}) # {}

C16_Witness ==
  /\ package.user = "MISTRA"
  /\ package.raised = "ValueError"
  /\ package.entries = {}
  /\ Cardinality(package.paths) = 1


(***************************************************************************)
(* Passes over a 3x3 world whose backend always writes a result, and the   *)
(* exports made after them                                                 *)
(***************************************************************************)
ExportControllers == 1

ExportDims == { <<3, 3>> }

ExportAtmospheres == {"integral", "fractional"}

InitExport == InitOn(BaseFiles, Comparators, ExportDims, Populators)

ConstructExport ==
  /\ controllers < ExportControllers
  /\ \E rt \in RunTypes, ctrl \in ControllerCfgs : NewController(rt, ctrl, <<>>)

ExecuteOk == ExecuteWith({"ok"}, ExportAtmospheres)

NextExport ==
  ConstructExport \/ Configure \/ Classify \/ ExecuteOk \/ CopyForward \/ Record \/ Export

SpecExport == InitExport /\ [][NextExport]_vars

\* the raw dict of the column among the result artifacts the export has read
RawOf(column) ==
  rawColumnDict(column, AtmosphereData(
    runtimeFiles[CHOOSE x \in package.paths : ColumnOfPath(x) = column][2]))

\* the entry holds the values of the raw dict
EntryEquals(e, raw) ==
  /\ e.lowerHeight = raw.lowerHeight /\ e.upperHeight = raw.upperHeight
  /\ e.lowerPressure = raw.lowerPressure /\ e.upperPressure = raw.upperPressure
  /\ e.levelTemperature = raw.levelTemperature
  /\ e.density = [k \in 1..Len(raw.species) |-> <<raw.species[k], raw.density[k]>>]

\* the neighbours of an entry's column in the exported run
NeighboursOf(e) == Adjacent(e.column, {ColumnOfPath(x) : x \in package.paths})

\* the values the neighbours of the entry's column report
NeighbourValues(e) == {[RawOf(a) EXCEPT !.column = ""] : a \in NeighboursOf(e)}

\* C15 as stated: the entry of a column whose neighbours all report the same values
\* holds those values.
C15_AverageOfEqual ==
  \A e \in package.entries : \A values \in {NeighbourValues(e)} :
    Cardinality(values) = 1 => \A raw \in values : EntryEquals(e, raw)

\* C15: the entry of a column whose neighbours all report the same values holds
\* those values when the column has one, two or four neighbours in the run, as the
\* centre and the corners of a 3x3 world have.
C15_AverageOfEqualButThree ==
  \A e \in package.entries : \A values \in {NeighbourValues(e)} :
    (Cardinality(values) = 1 /\ Cardinality(NeighboursOf(e)) # 3)
      => \A raw \in values : EntryEquals(e, raw)

C15_Witness ==
  /\ package.user = "MISTRA" /\ package.raised = ""
  /\ Cardinality(package.entries) = 9
  /\ \E e \in package.entries :
       /\ e.column = "211"
       /\ Cardinality(NeighboursOf(e)) = 4
       /\ e.levelTemperature = FloatRatio(1, 10)
       /\ \E values \in {NeighbourValues(e)} :
            Cardinality(values) = 1 /\ \A raw \in values : EntryEquals(e, raw)

(***************************************************************************)
(* The order of the search in checkDup                                     *)
(***************************************************************************)
\* the prior config paths of the ledger, oldest first, whose maps equal the candidate's
EqualPriors == SelectSeq(PreviousCfgFilePaths(CfgFilePathAll(ledger)), EqualPrior)

\* the path of the candidate's own config-path event, the last one of the ledger
OwnCfgFilePath == strip(SplitLast(Last(CfgFilePathAll(ledger)), "CfgFilePath: "))

\* C21: when several prior config artifacts of the ledger are equivalent to the
\* candidate, checkDup returns a reuse of the one whose config-path event is the
\* earliest in the ledger, and never the candidate's own just-recorded path.
C21_EarliestEquivalentWins ==
  (Classified /\ Len(EqualPriors) >= 2)
    => /\ checkDupResult.kind = "dup"
       /\ checkDupResult.prev = EqualPriors[1]
       /\ checkDupResult.prev # OwnCfgFilePath

\* the first column of an initial run has been configured and the second has not
FirstColumnConfigured ==
  vulcanRunType = "INITIAL_RUN" /\ index = 0 /\ pc \in {"configured", "classified", "ran"}

\* checkDup has returned for the current column, or ended it with an exception
CheckDupEnded == pc = "classified" \/ (pc = "raised" /\ checkDupResult.kind = "raise")

\* C22: once the first column of an initial run is configured the ledger holds exactly
\* one config-path event and checkDup returns Fresh for that column; and checkDup
\* returns Fresh whenever the ledger holds fewer than two config-path events.
C22_FirstColumnIsFresh ==
  /\ FirstColumnConfigured
       => /\ Len(CfgFilePathAll(ledger)) = 1
          /\ pc # "configured" => checkDupResult.kind = "False"
  /\ (CheckDupEnded /\ Len(CfgFilePathAll(ledger)) < 2) => checkDupResult.kind = "False"

\* C22 witness: the first column of an initial run that follows an earlier controller
\* on the same directories is classified Fresh on a ledger of one config-path event
C22_Witness ==
  /\ pc = "classified"
  /\ vulcanRunType = "INITIAL_RUN"
  /\ index = 0
  /\ controllers >= 2
  /\ Len(CfgFilePathAll(ledger)) = 1
  /\ checkDupResult.kind = "False"

(***************************************************************************)
(* The events of a scheduling pass in the ledger                           *)
(***************************************************************************)
\* what a ledger line is an event of
EventKind(line) ==
  LET head == SplitFirst(line, ":") IN
  IF head = "Vulcan column run" THEN "run"
  ELSE IF head = "CfgFilePath" THEN "cfg"
  ELSE IF head = "Vulcan column execute" THEN "execute"
  ELSE IF head = "Vulcan column duplicate, srcRunID" THEN "duplicate"
  ELSE IF head = "Vulcan column complete" THEN "complete"
  ELSE IF head = "Vulcan full run execute" THEN "pass"
  ELSE ""

\* the lines of the latest scheduling pass: those after the last 'full run' line
PassLines ==
  LET starts == {i \in 1..Len(ledger) : EventKind(ledger[i]) = "pass"}
  IN IF starts = {} THEN <<>> ELSE SubSeq(ledger, Max(starts) + 1, Len(ledger))

\* its column events, in order
PassEvents == SelectSeq(PassLines, LAMBDA x : EventKind(x) \in {"run", "cfg", "execute", "duplicate", "complete"})

\* the run a column-run or config-path event is about: the text after the colon of
\* the one, the run in the path of the other
RunOfEvent(line) ==
  IF EventKind(line) = "run" THEN strip(SplitSecond(line, ":"))
  ELSE SplitFirst(SplitLast(line, "-run-"), "-cfgFile.txt")

\* the column of the group of four events that holds the i-th event, in the order generateColumns lists them
ColumnOfGroup(i) == generateColumns[((i - 1) \div 4) + 1]

\* C23: the column events of a pass come in groups of four, one group per column in
\* grid order: the column-run event, one config-path event, an execute event or a
\* duplicate event, the completion event; so no event of the next column precedes
\* the completion of the current one, and a finished pass has a group for every column.
C23_OneColumnAtATime ==
  \A events \in {PassEvents} :
    /\ Len(events) <= 4 * Len(generateColumns)
    /\ \A i \in 1..Len(events) :
         /\ i % 4 = 1 => /\ EventKind(events[i]) = "run"
                         /\ SplitSecond(RunOfEvent(events[i]), "-") = ColumnOfGroup(i)
         /\ i % 4 = 2 => /\ EventKind(events[i]) = "cfg"
                         /\ RunOfEvent(events[i]) = RunOfEvent(events[i - 1])
         /\ i % 4 = 3 => EventKind(events[i]) \in {"execute", "duplicate"}
         /\ i % 4 = 0 => EventKind(events[i]) = "complete"
    /\ (pc = "done" /\ columnsList # <<>>) => Len(events) = 4 * Len(generateColumns)

\* C23 witness: a finished pass over four columns, the first executed and a later one
\* copied forward
C23_Witness ==
  /\ pc = "done"
  /\ Len(columnsList) = 4
  /\ \E events \in {PassEvents} :
       /\ Len(events) = 16
       /\ EventKind(events[3]) = "execute"
       /\ \E i \in {7, 11, 15} : EventKind(events[i]) = "duplicate"

(***************************************************************************)
(* A backend execution that fails                                          *)
(***************************************************************************)
\* the last backend execution of the pass ended without a result artifact
BackendFailed == backend \in {"fail_start", "fail_run"}

\* C24: when the backend's execution of a column fails, that column's completion event
\* is appended and the pass goes on to the next column: from then on the controller
\* is at a column's step or done, and has not ended with an exception.
C24_FailureDoesNotStopPass ==
  BackendFailed =>
    /\ pc \in {"ran", "loop", "configured", "classified", "done"}
    /\ pc = "done" => Len(SelectSeq(PassLines, LAMBDA x : EventKind(x) = "complete"))
                        = Len(columnsList)

(***************************************************************************)
(* The grid on its own: generateColumns and nearestColumns for worlds of   *)
(* up to MaxWorld columns along the first axis                             *)
(***************************************************************************)
MaxWorld == 12

\* globalParameters['world']['atmosphereDim']: square worlds and worlds that are not
WorldDims == {<<nx, ny>> : nx \in 1..MaxWorld, ny \in 1..3}

InitColumns == InitOn(BaseFiles, { << "run_num" >> }, WorldDims, Populators)

\* an initial run is started: runFullVulcan has called generateColumns
ConstructColumns ==
  /\ controllers = 0
  /\ NewController("INITIAL_RUN", <<>>, <<>>)

\* self.nearestColumns(column) for a column of the pass
CallNearestColumns ==
  /\ translated = NoCalls
  /\ \E k \in 1..Len(columnsList) :
       Called("nearestColumns", "", PyStr(columnsList[k]), PyStrs(nearestColumns(columnsList[k])))

NextColumns == ConstructColumns \/ CallNearestColumns

SpecColumns == InitColumns /\ [][NextColumns]_vars

\* the column ID of the column at (x, y)
GridName(x, y) == "2" \o ToString(x) \o ToString(y)

\* the coordinates of a world of the dimensions (nx, ny)
GridOf(nx, ny) == (0..(nx - 1)) \X (0..(ny - 1))

\* C25: for world dimensions (nx, ny) the columns of a pass are exactly the nx * ny
\* column IDs '2{x}{y}' with 0 <= x < nx and 0 <= y < ny, also when nx # ny.
C25_RectangularGrid ==
  controllers = 1 =>
    /\ Elements(columnsList) = {GridName(c[1], c[2]) : c \in GridOf(atmosphereDim[1], atmosphereDim[2])}
    /\ Len(columnsList) = atmosphereDim[1] * atmosphereDim[2]

\* C26: the column IDs generateColumns makes for a pass are pairwise distinct, whatever
\* the world dimensions, so no two columns of the pass have the same run identifier.
C26_ColumnsDistinct == NoneTwice(columnsList)

\* the coordinates of the columns generateColumns has listed, and those among them
\* one unit step away from (x, y)
GeneratedGrid ==
  {<<(k - 1) \div atmosphereDim[1], (k - 1) % atmosphereDim[1]>> : k \in 1..Len(columnsList)}

StepsFrom(x, y) ==
  {c \in GeneratedGrid : \/ c[2] = y /\ (c[1] = x + 1 \/ c[1] = x - 1)
                         \/ c[1] = x /\ (c[2] = y + 1 \/ c[2] = y - 1)}

\* C27: for every column (x, y) of the generated grid, the neighbours the export takes
\* (nearestColumns of the column, restricted to the columns of the pass) are exactly
\* the columns of the pass at (x+1, y), (x-1, y), (x, y-1) and (x, y+1); and
\* nearestColumns yields no column with a negative coordinate.
C27_NeighboursAreAdjacent ==
  \A i \in DOMAIN translated :
    translated[i].fn = "nearestColumns" =>
      /\ \A n \in Elements(translated[i].result.strs) : ~Contains(n, "-")
      /\ \A c \in GeneratedGrid :
           GridName(c[1], c[2]) = translated[i].arg.s
             => Elements(nearestListColumns(translated[i].arg.s, Elements(columnsList)))
                  = {GridName(a[1], a[2]) : a \in StepsFrom(c[1], c[2])}

(***************************************************************************)
(* Neighbours that report different species                                *)
(***************************************************************************)
\* the columns of the result artifacts the export has read
ExportedColumns == {ColumnOfPath(x) : x \in package.paths}

\* what a neighbour adds to the sum of a species: its value, nothing when it does not
\* report the species
DensityOrZero(raw, sp) == IF HasSpecies(raw, sp) THEN DensityOf(raw, sp) ELSE FloatZero

\* the averages of a species over the neighbours of a column, every neighbour counted,
\* for the orders the sum can be made in
AveragesOver(column, sp) ==
  LET near == nearestListColumns(column, ExportedColumns)
      vals == ListOf([i \in 1..Len(near) |-> DensityOrZero(RawOf(near[i]), sp)])
  IN {average(Ranked(vals, rank)) : rank \in Ranks}

\* C28: a MISTRA export over a run in which every column has a neighbour does not fail
\* because a neighbour lacks a species: the species of an entry are those of a
\* neighbour with the largest species set, and each one's value is the sum over the
\* neighbours that report it divided by the number of all neighbours.
C28_MissingSpeciesAveraged ==
  (package.user = "MISTRA" /\ package.paths # {}
     /\ \A c \in ExportedColumns : Adjacent(c, ExportedColumns) # {})
    => /\ package.raised = ""
       /\ \A e \in package.entries :
            /\ \E a \in NeighboursOf(e) :
                 /\ \A b \in NeighboursOf(e) : Len(RawOf(b).species) <= Len(RawOf(a).species)
                 /\ [k \in 1..Len(e.density) |-> e.density[k][1]] = RawOf(a).species
            /\ \A k \in 1..Len(e.density) :
                 e.density[k][2] \in AveragesOver(e.column, e.density[k][1])

(***************************************************************************)
(* A world of several columns over an initial pass and reuse passes, with   *)
(* sources that set the rebuild flag and an import mapping for one column  *)
(***************************************************************************)
RemakeControllers == 2

\* VulcanBaseParameters-2.txt with the flag on, and with the flag off
RemakeBases ==
  { << "out_name = 'v'", "remake_chem_funs = True", "ini_mix = 'EQ'" >>,
    << "out_name = 'v'", "remake_chem_funs = False", "ini_mix = 'EQ'" >> }

\* VulcanPopulator.json: no entry, or one that sets the flag for the columns at (0, 1)
\* and (0, 0)
RemakePopulators ==
  { <<>>, << [pos |-> "0 1, 00", upd |-> << <<"remake_chem_funs", "True">> >>] >> }

\* controllerCfgVulcan: nothing, or the flag
RemakeControllerCfgs == { <<>>, << <<"remake_chem_funs", "True">> >> }

InitRemake == InitOn(RemakeBases, { << "run_num" >> }, GridDims, RemakePopulators)

\* an initial run, then passes that use its results
ConstructRemake ==
  /\ controllers < RemakeControllers
  /\ \E ctrl \in RemakeControllerCfgs, imp \in ImportCfgs :
       /\ controllers = 0 => imp = <<>>
       /\ NewController(IF controllers = 0 THEN "INITIAL_RUN" ELSE "USE_LATEST_VUL", ctrl, imp)

\* the backend runs to its end, on the one atmosphere
ExecuteIntegral == ExecuteWith({"ok"}, Atmospheres)

NextRemake ==
  ConstructRemake \/ Configure \/ Classify \/ ExecuteIntegral \/ CopyForward \/ Record

SpecRemake == InitRemake /\ [][NextRemake]_vars

\* vulcan_cfg.py holds the configuration assembled for the column at index
Assembled == pc \in {"configured", "classified", "ran"}

\* the update of the populator entry for the column, <<>> when there is none
PopulatorUpdate(column) ==
  LET hits == {i \in 1..Len(vulcanPopulator) :
                 SubSeq(column, 2, Len(column))
                   \in Elements(PopulatorPositions(vulcanPopulator[i].pos))}
  IN IF vulcanRunType # "INITIAL_RUN" \/ hits = {} THEN <<>>
     ELSE vulcanPopulator[Max(hits)].upd

\* the value of a variable in a dict of overrides, "" when it has none
Override(d, name) ==
  IF name \in DictKeys(d) THEN d[CHOOSE i \in 1..Len(d) : d[i][1] = name][2] ELSE ""

\* the flag as the merged sources give it: the populator's entry for the column, else
\* the controller's override, else the base file
MergedRemake(column) ==
  IF Override(PopulatorUpdate(column), "remake_chem_funs") # ""
  THEN Override(PopulatorUpdate(column), "remake_chem_funs")
  ELSE IF Override(controllerCfgVulcan, "remake_chem_funs") # ""
  THEN Override(controllerCfgVulcan, "remake_chem_funs")
  ELSE VarOf(baseParameters, "remake_chem_funs")

\* C29: the configuration assembled for a column that is not the first of its pass has
\* remake_chem_funs = False, whatever the base file, the controller's overrides and
\* the populator say; the one assembled for the first column has the value the merged
\* sources give.
C29_RemakeOnlyFirstColumn ==
  Assembled =>
    VarOf(cfgFile, "remake_chem_funs")
      = IF index # 0 THEN "False" ELSE MergedRemake(columnsList[1])

\* C29 witness: the flag is off for the column at (0, 1), whose populator entry sets it,
\* on a base file that sets it and under a controller that sets it
C29_Witness ==
  /\ Assembled
  /\ index = 1
  /\ currentRunID = "1-201"
  /\ VarOf(baseParameters, "remake_chem_funs") = "True"
  /\ Override(PopulatorUpdate("201"), "remake_chem_funs") = "True"
  /\ VarOf(cfgFile, "remake_chem_funs") = "False"

\* C30: in a pass that reuses previous results, a column without an entry in the
\* import mapping is classified on its own configuration: when the ledger lists a
\* prior artifact equivalent to it, checkDup returns a reuse, also after an earlier
\* column of the pass had a side artifact written.
C30_OtherColumnsSideIgnored ==
  (pc = "classified" /\ vulcanRunType = "USE_LATEST_VUL" /\ MatchedEntries = {}
     /\ \E path \in PriorPaths : EqualPrior(path))
    => checkDupResult.kind = "dup"

(***************************************************************************)
(* vulcanExport for the perturbation module: the columns of interest are   *)
(* looked up one after the other in the zip of the latest run's columns    *)
(* and paths, which is one iterator for the whole call                     *)
(***************************************************************************)
\* the longest list of columns of interest a caller asks for
MaxInterest == 2

\* args[0]: the columns of interest, as a str, as a tuple of strs, one of them a
\* column no world of the model has
InterestColumns == {PyStr("200"), PyStrs(<<"2", "1", "1">>), PyStr("222")}

InterestLists ==
  UNION {[1..n -> InterestColumns] : n \in 1..MaxInterest}

\* args[1]: a height in metres, 0.2 and 200.0
InterestHeights == {FloatRatio(1, 5), FloatOfNat(200)}

\* a < b for two floats that are not negative
FloatLess(a, b) ==
  IF a.k = "nan" \/ b.k = "nan" THEN FALSE
  ELSE IF a.k = "inf" \/ b.k = "zero" THEN FALSE
  ELSE IF b.k = "inf" \/ a.k = "zero" THEN TRUE
  ELSE \/ a.e < b.e
       \/ /\ a.e = b.e
          /\ \E i \in 1..MantissaBits :
               a.m[i] < b.m[i] /\ \A j \in 1..(i - 1) : a.m[j] = b.m[j]

\* line 584: os.listdir gives the files of vul-runtime in any order, and line 585
\* keeps that order
latestRunFilePaths(latest) ==
  {ListOf(q) : q \in {f \in [1..Cardinality(latest.paths) -> latest.paths] :
                        \A i, j \in DOMAIN f : f[i] = f[j] => i = j}}

\* lines 660-664: next() on latestRunZipped until the column of interest comes; the
\* path that is opened, "" when the iterator ends first, and what the iterator has left
RECURSIVE ZipSearch(_, _, _)
ZipSearch(latestRunZipped, columnInterest, latestOutputRunID) ==
  IF latestRunZipped = <<>> THEN [path |-> "", rest |-> <<>>]
  ELSE IF ColumnOf(Head(latestRunZipped), latestOutputRunID) = columnInterest
  THEN [path |-> Head(latestRunZipped), rest |-> Tail(latestRunZipped)]
  ELSE ZipSearch(Tail(latestRunZipped), columnInterest, latestOutputRunID)

\* the body of the loop of line 658 ends with an exception
NoColumnDict(columnInterest, exc) ==
  [column |-> columnInterest, key |-> PyRaise(exc), raised |-> exc, path |-> "",
   lowerHeight |-> FloatNaN, upperHeight |-> FloatNaN, lowerPressure |-> FloatNaN,
   upperPressure |-> FloatNaN, levelTemperature |-> FloatNaN, density |-> <<>>, index |-> 0]

\* lines 666-690: the entry of a column of interest from the vul_data that is loaded,
\* the pickle at `path`. The level is the one below the first height above `height`;
\* heightList[-1] is the last height; the model's y holds the lowest level only
columnDict(columnInterest, path, vul_data, height) ==
  LET heightList == vul_data.zco
      above == {i \in 1..Len(heightList) : FloatLess(height, heightList[i])}
  IN IF above = {} THEN NoColumnDict(columnInterest, "IndexError")
     ELSE
     LET upper == CHOOSE i \in above : \A j \in above : i <= j
         lower == IF upper = 1 THEN Len(heightList) ELSE upper - 1
         lowerHeightIndex ==
           CHOOSE i \in 1..Len(heightList) :
             /\ FloatEq(heightList[i], heightList[lower])
             /\ \A j \in 1..(i - 1) : ~FloatEq(heightList[j], heightList[lower])
         key == translateCol("EXPORT", PyStr(columnInterest))
     IN IF lowerHeightIndex + 1 > Len(vul_data.pico) \/ lowerHeightIndex > Len(vul_data.Tco)
        THEN NoColumnDict(columnInterest, "IndexError")
        ELSE IF key.t = "raise" THEN NoColumnDict(columnInterest, key.s)
        ELSE
        [column |-> columnInterest, key |-> key, raised |-> "", path |-> path,
         lowerHeight |-> translateHeight("EXPORT", PyFloat(heightList[lower])).f,
         upperHeight |-> translateHeight("EXPORT", PyFloat(heightList[upper])).f,
         lowerPressure |->
           translatePressure("EXPORT", PyFloat(vul_data.pico[lowerHeightIndex])).f,
         upperPressure |->
           translatePressure("EXPORT", PyFloat(vul_data.pico[lowerHeightIndex + 1])).f,
         levelTemperature |-> vul_data.Tco[lowerHeightIndex],
         density |-> [k \in 1..Len(vul_data.species) |->
                        <<vul_data.species[k], vul_data.y[k]>>],
         index |-> lowerHeightIndex - 1]

\* lines 658-690: the loop over the columns of interest. `loaded` is the path whose
\* pickle the local vul_data holds, "" while the name is unbound
RECURSIVE columnInterestLoop(_, _, _, _, _, _, _)
columnInterestLoop(columnInterestList, i, latestRunZipped, loaded, runID, height, entries) ==
  IF i > Len(columnInterestList) THEN [raised |-> "", entries |-> entries]
  ELSE
  LET found  == ZipSearch(latestRunZipped, columnInterestList[i], runID)
      opened == IF found.path # "" THEN found.path ELSE loaded
  IN IF opened = "" THEN [raised |-> "UnboundLocalError", entries |-> {}]
     ELSE
     LET entry == columnDict(columnInterestList[i], opened,
                             AtmosphereData(runtimeFiles[opened][2]), height)
     IN IF entry.raised # "" THEN [raised |-> entry.raised, entries |-> {}]
        ELSE columnInterestLoop(columnInterestList, i + 1, found.rest, opened,
                                runID, height,
                                {e \in entries : e.key # entry.key} \cup {entry})

\* vulcanExport('PERTURB', columns, height) on the latest run, with the directory
\* listed in the order of `listing`: what the call returns or raises, together with
\* the columns asked for and the result artifacts that were opened
vulcanExportPerturb(latest, listing, columns, height) ==
  LET columnInterestList ==
        [i \in 1..Len(columns) |-> translateCol("IMPORT", columns[i])]
      asked == [user |-> "PERTURB", runID |-> latest.runID, listing |-> listing]
  IN IF latest.raised # ""
     THEN [asked EXCEPT !.runID = ""] @@
          [raised |-> latest.raised, interest |-> <<>>, paths |-> {}, entries |-> {}]
     ELSE IF \E i \in 1..Len(columns) : columnInterestList[i].t = "raise"
     THEN asked @@ [raised |-> "TypeError", interest |-> <<>>, paths |-> {},
                    entries |-> {}]
     ELSE
     LET interest == ListOf([i \in 1..Len(columns) |-> columnInterestList[i].s])
         out == columnInterestLoop(interest, 1, listing, "", latest.runID,
                                   translateHeight("IMPORT", PyFloat(height)).f, {})
     IN asked @@ [raised |-> out.raised, interest |-> interest,
                  paths |-> {e.path : e \in out.entries}, entries |-> out.entries]

\* the perturbation module exports, once, from a controller whose constructor has
\* returned
ExportPerturb ==
  /\ pc = "done"
  /\ package = NoPackage
  /\ \E columns \in InterestLists, height \in InterestHeights, latest \in {latestRun} :
       \E listing \in latestRunFilePaths(latest) :
         package' = vulcanExportPerturb(latest, listing, ListOf(columns), height)
  /\ UNCHANGED <<Disk, ledgerExists, ledger, runtimeFiles, cfgFile, vulcanRunType,
                 currentRunID, out_name, modifyAtmFilePath, controllerCfgVulcan,
                 importCfgVulcan, modelParametersVulcan, columnsList, index,
                 checkDupResult, pc, raised, controllers, backend, writes, First,
                 translated>>

NextPerturb ==
  ConstructGrid \/ Configure \/ Classify \/ ExecuteOk \/ CopyForward \/ Record
    \/ ExportPerturb

SpecPerturb == InitGrid /\ [][NextPerturb]_vars

\* the result artifact of column c in the latest pass, "" when there is none
ArtifactOf(c) ==
  IF \E p \in latestRun.paths : ColumnOf(p, latestRun.runID) = c
  THEN CHOOSE p \in latestRun.paths : ColumnOf(p, latestRun.runID) = c
  ELSE ""

\* C31: a perturbation export that returns has, for every column asked for, an entry
\* under that column's key that was computed from that column's result artifact of
\* the latest pass; when a column asked for has no result artifact the export raises
C31_EntryFromOwnArtifact ==
  (package.user = "PERTURB" /\ package.runID # "" /\ package.interest # <<>>) =>
    /\ package.raised = "" =>
         \A i \in 1..Len(package.interest) :
           \E e \in package.entries :
             /\ e.key = translateCol("EXPORT", PyStr(package.interest[i]))
             /\ e.path # ""
             /\ e.path = ArtifactOf(package.interest[i])
    /\ (\E i \in 1..Len(package.interest) : ArtifactOf(package.interest[i]) = "")
         => package.raised # ""

(***************************************************************************)
(* One pass over a world eleven columns wide, where the identifier of      *)
(* column 201 is the beginning of the identifier of column 2010            *)
(***************************************************************************)
WideControllers == 1

\* the width of the world
WideWorld == 11

WideDims == { <<WideWorld, 1>> }

\* VulcanCfgComparator.txt: only the run number is left out of the comparison
WideComparators == { << "run_num" >> }

InitWide == InitWith(WideComparators, WideDims)

ConstructWide ==
  /\ controllers < WideControllers
  /\ NewController("INITIAL_RUN", <<>>, <<>>)

NextWide == ConstructWide \/ Configure \/ Classify \/ ExecuteIntegral \/ CopyForward \/ Record

SpecWide == InitWide /\ [][NextWide]_vars

\* the run a config or result artifact is named after: '1-201' for
\* 'v-run-1-201-output.vul'
RunOfPath(path) ==
  LET parts == split(SplitLast(path, "-run-"), "-")
  IN parts[1] \o "-" \o parts[2]

\* the config and result artifacts a step has created or written again
Written(before, after) ==
  {p \in DOMAIN after : p \notin DOMAIN before \/ after[p] # before[p]}

\* C32: a copy-forward of source run s into the current run r reads only artifacts of
\* run s and creates or overwrites only artifacts named after run r
C32_CopyForwardStaysInRun ==
  [][CopyForward =>
       /\ \A p \in Written(writes, writes') : RunOfPath(p) = currentRunID
       /\ \A p \in RelatedFiles(runtimeFiles, SrcRunID(checkDupResult.prev)) :
            RunOfPath(p) = SrcRunID(checkDupResult.prev)]_vars

(***************************************************************************)
(* The keys of an import payload that name neither a height nor a pressure *)
(***************************************************************************)
\* the key is translated by the loop of lines 352-357
UnitNamed(key) == Contains(key, "Height") \/ Contains(key, "Pressure")

\* C33: when cfgVulcan writes the side artifact of a column, a key of the payload that
\* names neither a height nor a pressure is written with the value it came with, and
\* every key is written with its own value or with a unit translation of it
C33_OtherKeysUnchanged ==
  [][(pc = "loop" /\ MatchedEntries # {} /\ SideWritten')
       => LET upd == importCfgVulcan[Max(MatchedEntries)].upd
          IN \A k \in 1..Len(upd) :
               /\ ~UnitNamed(upd[k][1]) => SideLines'[k] = JsonLine(upd[k][1], upd[k][2])
               /\ SideLines'[k] \in {JsonLine(upd[k][1], upd[k][2]),
                                     JsonLine(upd[k][1], FloatMul(upd[k][2], 10)),
                                     JsonLine(upd[k][1], FloatMul(upd[k][2], 100))}]_vars

(***************************************************************************)
(* The controller's overrides in the assembled configuration               *)
(***************************************************************************)
\* the variables cfgVulcan sets itself after the controller's overrides (lines 335-341,
\* 367-368, 379, 382)
SetByAssembler == {"ini_mix", "atm_type", "vul_ini_file_path", "remake_chem_funs", "P_b"}

\* C34: every variable of the controller's override mapping that neither the populator
\* nor the assembler itself sets afterwards is in the assembled vulcan_cfg.py with the
\* override's value, whether or not the base file, the global parameters or the
\* directories have a variable of that name
C34_OverrideKeysAppear ==
  [][(pc = "loop" /\ pc' = "configured")
       => \E srcs \in {Sources} :
            \A name \in DictKeys(controllerCfgVulcan) \ SetByAssembler :
              Max(Supplying(srcs, name)) = 5
                => VarOf(cfgFile', name) = LatestSupplied(srcs, name)]_vars

====
